---- MODULE Spec2Model ----
(***************************************************************************)
(* A model of the DSX parser: extractDSXJobInfo and its helpers, the       *)
(* validator, the batch loop processDSXFiles and the archive reader        *)
(* extractDSXFilesFromZip.                                                 *)
(*                                                                         *)
(* Text is modelled as sequences of one-character strings, so that trim,   *)
(* split and the blank tests are computed and not assumed.  A document is  *)
(* a sequence of tokens, one per lexical construct the regular             *)
(* expressions of the parser key on; every regular expression is modelled  *)
(* by an operator that scans the token sequence the way the expression     *)
(* scans the text (leftmost match, lazy gaps).                             *)
(***************************************************************************)
EXTENDS Integers, Sequences, FiniteSets, TLC

(***************************************************************************)
(* Strings                                                                 *)
(***************************************************************************)

\* undefined / null / a failed match
Null == <<"<null>">>

Empty == <<>>

IsWs(c) == c \in {" ", "\t", "\n", "\r"}

MinOf(S) == CHOOSE x \in S : \A y \in S : x <= y

MaxOf(S) == CHOOSE x \in S : \A y \in S : x >= y

\* String.prototype.trim
Trim(s) ==
  LET keep == {i \in 1..Len(s) : ~IsWs(s[i])}
  IN IF keep = {} THEN Empty ELSE SubSeq(s, MinOf(keep), MaxOf(keep))

\* JavaScript truthiness of a string-or-undefined value
Truthy(s) == s # Null /\ s # Empty

\* a || b
OrElse(a, b) == IF Truthy(a) THEN a ELSE b

\* String.prototype.split with a one-character separator
Split(s, sep) ==
  LET cuts == {i \in 1..Len(s) : s[i] = sep}
      n == Cardinality(cuts)
      \* position of the k-th separator; 0 before the first, Len+1 after the last
      cut(k) == IF k = 0 THEN 0
                ELSE IF k = n + 1 THEN Len(s) + 1
                ELSE CHOOSE i \in cuts : Cardinality({j \in cuts : j < i}) = k - 1
  IN [k \in 1..(n + 1) |-> SubSeq(s, cut(k - 1) + 1, cut(k) - 1)]

\* Array.prototype.filter, for a set of kept positions
RECURSIVE KeepAt(_, _, _)
KeepAt(seq, keep, i) ==
  IF i > Len(seq) THEN <<>>
  ELSE (IF i \in keep THEN <<seq[i]>> ELSE <<>>) \o KeepAt(seq, keep, i + 1)

\* String.prototype.startsWith
StartsWith(s, p) == Len(s) >= Len(p) /\ SubSeq(s, 1, Len(p)) = p

\* String.prototype.endsWith
EndsWith(s, p) == Len(s) >= Len(p) /\ SubSeq(s, Len(s) - Len(p) + 1, Len(s)) = p

\* the placeholder of the primary flow strategy
Unknown == <<"U", "n", "k", "n", "o", "w", "n">>

\* the blank stage name
Blank == <<" ">>

\* the property names every object literal inherits from Object.prototype:
\* map[key] of a literal map is defined for them although key is no entry
InheritedKeys ==
  {<<"c", "o", "n", "s", "t", "r", "u", "c", "t", "o", "r">>,
   <<"t", "o", "S", "t", "r", "i", "n", "g">>,
   <<"v", "a", "l", "u", "e", "O", "f">>,
   <<"h", "a", "s", "O", "w", "n", "P", "r", "o", "p", "e", "r", "t", "y">>,
   <<"i", "s", "P", "r", "o", "t", "o", "t", "y", "p", "e", "O", "f">>,
   <<"p", "r", "o", "p", "e", "r", "t", "y", "I", "s", "E", "n", "u", "m", "e", "r", "a", "b", "l", "e">>,
   <<"t", "o", "L", "o", "c", "a", "l", "e", "S", "t", "r", "i", "n", "g">>,
   <<"_", "_", "p", "r", "o", "t", "o", "_", "_">>}

\* the inherited member map[key] evaluates to: an object, truthy, no string
Inherited(key) == <<"<inherited>">> \o key

(***************************************************************************)
(* Documents                                                               *)
(***************************************************************************)

\* A token: k its kind, v its quoted value, x the elements of a sentinel
\* delimited block, n the number of characters of filler text.
Tok(k, v) == [k |-> k, v |-> v, x |-> <<>>, n |-> 0]

\* a sentinel-delimited block (Value =+=+=+= ... =+=+=+=): x its XML elements,
\* v its text read as code
Block(x) == [k |-> "HValue", v |-> Empty, x |-> x, n |-> 0]

Code(text) == [k |-> "HValue", v |-> text, x |-> <<>>, n |-> 0]

Filler(n) == [k |-> "Filler", v |-> Null, x |-> <<>>, n |-> n]

\* the first position at or after from whose token is of kind k with a
\* non-empty value ("([^"]+)"), 0 when there is none
FirstTok(doc, from, k) ==
  LET S == {j \in from..Len(doc) : doc[j].k = k /\ Truthy(doc[j].v)}
  IN IF from < 1 \/ S = {} THEN 0 ELSE MinOf(S)

\* the same for a kind whose value may be empty ("(.*?)")
FirstTokAny(doc, from, k) ==
  LET S == {j \in from..Len(doc) : doc[j].k = k}
  IN IF from < 1 \/ S = {} THEN 0 ELSE MinOf(S)

\* the first position at or after from holding kind k with value v
FirstTokVal(doc, from, k, v) ==
  LET S == {j \in from..Len(doc) : doc[j].k = k /\ doc[j].v = v}
  IN IF from < 1 \/ S = {} THEN 0 ELSE MinOf(S)

\* content.match(/Key "(.*?)"/): the captured text, Null without a match
MatchAny(doc, k) ==
  LET j == FirstTokAny(doc, 1, k) IN IF j = 0 THEN Null ELSE doc[j].v

\* content.match(/Key "([^"]+)"/)
MatchOne(doc, k) ==
  LET j == FirstTok(doc, 1, k) IN IF j = 0 THEN Null ELSE doc[j].v

(***************************************************************************)
(* Header: job name, description, job type                                 *)
(***************************************************************************)

\* result.name: the first Identifier "..." of the document, "" without one
JobName(doc) == OrElse(MatchOne(doc, "Identifier"), Empty)

\* the position of the first "\r\n\r\n" of s, 0 when there is none
ParaBreak(s) ==
  LET S == {i \in 1..(Len(s) - 3) : SubSeq(s, i, i + 3) = <<"\r", "\n", "\r", "\n">>}
  IN IF S = {} THEN 0 ELSE MinOf(S)

\* s.replace(/\r?\n/g, ' ')
RECURSIVE BreaksToSpaces(_)
BreaksToSpaces(s) ==
  IF s = <<>> THEN <<>>
  ELSE IF Len(s) >= 2 /\ s[1] = "\r" /\ s[2] = "\n"
       THEN <<" ">> \o BreaksToSpaces(SubSeq(s, 3, Len(s)))
  ELSE IF s[1] = "\n" THEN <<" ">> \o BreaksToSpaces(Tail(s))
  ELSE <<s[1]>> \o BreaksToSpaces(Tail(s))

\* result.description: the first paragraph of the description block
JobDescription(doc) ==
  LET j == FirstTokAny(doc, 1, "FullDescription")
      fullDesc == Trim(doc[j].v)
      b == ParaBreak(fullDesc)
      firstPara == OrElse(IF b = 0 THEN fullDesc ELSE SubSeq(fullDesc, 1, b - 1), fullDesc)
  IN IF j = 0 THEN Empty ELSE Trim(BreaksToSpaces(firstPara))

\* `Unknown (${code})`
UnknownCode(code) == <<"U", "n", "k", "n", "o", "w", "n", " ", "(">> \o code \o <<")">>

\* jobTypeMap[jobTypeCode] || `Unknown (${jobTypeCode})`
JobTypeLabel(code) ==
  CASE code = <<"0">> -> <<"S", "e", "r", "v", "e", "r", " ", "J", "o", "b">>
    [] code = <<"1">> -> <<"P", "a", "r", "a", "l", "l", "e", "l", " ", "J", "o", "b">>
    [] code = <<"2">> -> <<"S", "e", "q", "u", "e", "n", "c", "e", " ", "J", "o", "b">>
    [] code = <<"3">> -> <<"S", "e", "r", "v", "e", "r", " ", "R", "o", "u", "t", "i", "n", "e">>
    [] code \in InheritedKeys -> Inherited(code)
    [] OTHER -> UnknownCode(code)

\* the job type with the test of line 118 dropped and an empty code accepted
JobTypeUnguarded(doc) ==
  JobTypeLabel(OrElse(MatchAny(doc, "JobType"), Empty))

\* result.type
JobType(doc) ==
  LET code == MatchOne(doc, "JobType")
  IN IF code = Null THEN Empty ELSE JobTypeLabel(code)

(***************************************************************************)
(* Parameters                                                              *)
(***************************************************************************)

\* paramTypeMap[paramType] || `Unknown (${paramType})`
ParamTypeLabel(code) ==
  CASE code = <<"1">> -> <<"S", "t", "r", "i", "n", "g">>
    [] code = <<"2">> -> <<"I", "n", "t", "e", "g", "e", "r">>
    [] code = <<"3">> -> <<"F", "l", "o", "a", "t">>
    [] code = <<"4">> -> <<"P", "a", "t", "h", "n", "a", "m", "e">>
    [] code = <<"5">> -> <<"L", "i", "s", "t">>
    [] code = <<"6">> -> <<"D", "a", "t", "e">>
    [] code = <<"7">> -> <<"T", "i", "m", "e">>
    [] code = <<"8">> -> <<"T", "i", "m", "e", "s", "t", "a", "m", "p">>
    [] code = <<"1", "3">> ->
         <<"E", "n", "v", "i", "r", "o", "n", "m", "e", "n", "t", "V", "a", "r">>
    [] code \in InheritedKeys -> Inherited(code)
    [] OTHER -> UnknownCode(code)

IsTok(doc, j, k) == j >= 1 /\ j <= Len(doc) /\ doc[j].k = k

IsTokOne(doc, j, k) == IsTok(doc, j, k) /\ Truthy(doc[j].v)

\* the position of ParamType when paramRegex matches at position j, else 0:
\* the sub-record header and its fields with only white space between them
ParamAt(doc, j) ==
  IF IsTok(doc, j, "BeginSub") /\ IsTokOne(doc, j + 1, "Name")
     /\ IsTok(doc, j + 2, "Prompt") /\ IsTok(doc, j + 3, "Default")
  THEN IF IsTokOne(doc, j + 4, "ParamType") THEN j + 4
       ELSE IF IsTok(doc, j + 4, "HelpTxt") /\ IsTokOne(doc, j + 5, "ParamType") THEN j + 5
       ELSE 0
  ELSE 0

\* result.parameters: one entry per match of paramRegex, in document order
RECURSIVE Parameters(_, _)
Parameters(doc, from) ==
  LET S == {j \in from..Len(doc) : ParamAt(doc, j) # 0}
      j == MinOf(S)
      e == ParamAt(doc, j)
  IN IF S = {} THEN <<>>
     ELSE <<[name |-> doc[j + 1].v, prompt |-> doc[j + 2].v, default |-> doc[j + 3].v,
             help |-> IF e = j + 5 THEN OrElse(doc[j + 4].v, Empty) ELSE Empty,
             type |-> ParamTypeLabel(doc[e].v)]>>
          \o Parameters(doc, e + 1)

(***************************************************************************)
(* Symbol resolver: stage identifier -> stage name, stage name -> type     *)
(***************************************************************************)

\* stageNamesMatch[1].split('|').map(s => s.trim())
StageNamesOf(raw) == LET p == Split(raw, "|") IN [i \in 1..Len(p) |-> Trim(p[i])]

\* the positions of stageIds that the loop stores in stageMap
StoredAt(stageIds, stageNames) ==
  {i \in 1..Len(stageIds) : i <= Len(stageNames) /\ stageNames[i] # Blank}

\* stageMap: identifier -> name, the last position of an identifier winning
StageMapOf(stageIds, stageNames) ==
  LET at == StoredAt(stageIds, stageNames)
  IN [id \in {stageIds[i] : i \in at} |->
        stageNames[MaxOf({i \in at : stageIds[i] = id})]]

\* stageMap[id]: undefined for an identifier that is neither a key nor inherited
Lookup(map, id) ==
  IF id \in DOMAIN map THEN map[id]
  ELSE IF id \in InheritedKeys THEN Inherited(id)
  ELSE Null

\* the map the document defines (the guard of line 165 taken)
StageMap(doc) ==
  StageMapOf(Split(MatchAny(doc, "StageList"), "|"), StageNamesOf(MatchAny(doc, "StageNames")))

\* stageListMatch && stageNamesMatch
HasStageLists(doc) == MatchAny(doc, "StageList") # Null /\ MatchAny(doc, "StageNames") # Null

\* the next token of kind k with a non-empty value after position prev
\* (a lazy gap [\s\S]*? followed by Key "([^"]+)"); 0 when prev is 0
NextTok(doc, prev, k) == IF prev = 0 THEN 0 ELSE FirstTok(doc, prev + 1, k)

\* the same for a keyword or a value that may be empty
NextTokAny(doc, prev, k) == IF prev = 0 THEN 0 ELSE FirstTokAny(doc, prev + 1, k)

\* the matches of stageTypeRegex, in document order: record header, then
\* the first Name, the first StageType after it, and the record end
RECURSIVE StageTypePairs(_, _)
StageTypePairs(doc, from) ==
  LET b == FirstTokAny(doc, from, "Begin")
      n == NextTok(doc, b, "Name")
      t == NextTok(doc, n, "StageType")
      e == NextTokAny(doc, t, "End")
  IN IF e = 0 THEN <<>>
     ELSE <<[name |-> doc[n].v, type |-> doc[t].v]>> \o StageTypePairs(doc, e + 1)

\* stageTypeMap: stage name -> stage type, the last match of a name winning
StageTypeMap(doc) ==
  LET ps == StageTypePairs(doc, 1)
      at == {i \in 1..Len(ps) : ps[i].name # Blank}
  IN [nm \in {ps[i].name : i \in at} |-> ps[MaxOf({i \in at : ps[i].name = nm})].type]

(***************************************************************************)
(* SQL text                                                                *)
(***************************************************************************)

\* sql.replace(/\s+/g, ' ')
RECURSIVE CollapseWs(_)
CollapseWs(s) ==
  IF s = <<>> THEN <<>>
  ELSE IF IsWs(s[1])
       THEN LET rest == {i \in 2..Len(s) : ~IsWs(s[i])}
            IN <<" ">> \o (IF rest = {} THEN <<>>
                            ELSE CollapseWs(SubSeq(s, MinOf(rest), Len(s))))
  ELSE <<s[1]>> \o CollapseWs(Tail(s))

\* sql.replace(/\/\*.*?\*\//g, ''), on text without line breaks
RECURSIVE StripComments(_)
StripComments(s) ==
  LET opens == {i \in 1..(Len(s) - 1) : s[i] = "/" /\ s[i + 1] = "*"}
      o == MinOf(opens)
      closes == {j \in (o + 2)..(Len(s) - 1) : s[j] = "*" /\ s[j + 1] = "/"}
      c == MinOf(closes)
  IN IF opens = {} THEN s
     ELSE IF closes = {} THEN s
     ELSE SubSeq(s, 1, o - 1) \o StripComments(SubSeq(s, c + 2, Len(s)))

\* source.sql of a matched select statement
NormalizeSql(raw) == StripComments(CollapseWs(Trim(raw)))

\* toUpperCase on the letters of the alphabet
UpperOf(c) ==
  LET lower == <<"a", "b", "c", "d", "e", "f", "g", "h", "i", "j", "k", "l", "m", "n",
                "o", "p", "q", "r", "s", "t", "u", "v", "w", "x", "y", "z">>
      upper == <<"A", "B", "C", "D", "E", "F", "G", "H", "I", "J", "K", "L", "M", "N",
                "O", "P", "Q", "R", "S", "T", "U", "V", "W", "X", "Y", "Z">>
      S == {i \in 1..Len(lower) : lower[i] = c}
  IN IF S = {} THEN c ELSE upper[CHOOSE i \in S : TRUE]

\* \w: the word characters
IsWordChar(c) ==
  \/ UpperOf(c) # c
  \/ c \in {"A", "B", "C", "D", "E", "F", "G", "H", "I", "J", "K", "L", "M", "N", "O", "P",
            "Q", "R", "S", "T", "U", "V", "W", "X", "Y", "Z",
            "0", "1", "2", "3", "4", "5", "6", "7", "8", "9", "_"}

\* \b at position p: the characters before and at p differ in being word
\* characters (the ends of the text count as non-word)
Boundary(s, p) ==
  LET w(i) == i >= 1 /\ i <= Len(s) /\ IsWordChar(s[i])
  IN w(p - 1) # w(p)

\* \bKW\b matches at p, letter case ignored
KeywordAt(s, p, kw) ==
  /\ p >= 1 /\ p + Len(kw) - 1 <= Len(s)
  /\ \A i \in 1..Len(kw) : UpperOf(s[p + i - 1]) = kw[i]
  /\ Boundary(s, p) /\ Boundary(s, p + Len(kw))

\* the keywords that end a WHERE predicate
ClauseEnds == {<<"G", "R", "O", "U", "P", " ", "B", "Y">>, <<"O", "R", "D", "E", "R", " ", "B", "Y">>, <<"H", "A", "V", "I", "N", "G">>}

\* the matches of whereRegex from position from on, trimmed and the empty
\* ones dropped: \bWHERE\b\s+(.*?)(?:\bGROUP BY\b|\bORDER BY\b|\bHAVING\b|$)
RECURSIVE WhereClausesFrom(_, _)
WhereClausesFrom(s, from) ==
  LET heads == {p \in from..Len(s) :
                  KeywordAt(s, p, <<"W", "H", "E", "R", "E">>) /\ p + 5 <= Len(s) /\ IsWs(s[p + 5])}
      p == MinOf(heads)
      text == {i \in (p + 6)..Len(s) : ~IsWs(s[i])}
      q == IF text = {} THEN Len(s) + 1 ELSE MinOf(text)
      ends == {e \in q..Len(s) : \E kw \in ClauseEnds : KeywordAt(s, e, kw)}
      e == IF ends = {} THEN Len(s) + 1 ELSE MinOf(ends)
      kw == CHOOSE k \in ClauseEnds : KeywordAt(s, e, k)
      clause == Trim(SubSeq(s, q, e - 1))
      rest == IF ends = {} THEN <<>> ELSE WhereClausesFrom(s, e + Len(kw))
  IN IF from > Len(s) \/ heads = {} THEN <<>>
     ELSE (IF clause = Empty THEN <<>> ELSE <<clause>>) \o rest

\* extractWhereClauses(sql)
ExtractWhereClauses(sql) == WhereClausesFrom(sql, 1)

\* source.where_clauses: set when the select statement has a WHERE predicate
WhereClausesOf(sql) ==
  IF sql = Null \/ ExtractWhereClauses(sql) = <<>> THEN Null ELSE ExtractWhereClauses(sql)

(***************************************************************************)
(* Sources and targets from the property blocks                            *)
(***************************************************************************)

IsDigit(c) == c \in {"0", "1", "2", "3", "4", "5", "6", "7", "8", "9"}

DigitVal(c) ==
  CASE c = "0" -> 0 [] c = "1" -> 1 [] c = "2" -> 2 [] c = "3" -> 3 [] c = "4" -> 4
    [] c = "5" -> 5 [] c = "6" -> 6 [] c = "7" -> 7 [] c = "8" -> 8 [] c = "9" -> 9

\* parseInt(s, 10) of a string of digits
RECURSIVE ParseInt(_)
ParseInt(s) ==
  IF Len(s) = 1 THEN DigitVal(s[1])
  ELSE 10 * ParseInt(SubSeq(s, 1, Len(s) - 1)) + DigitVal(s[Len(s)])

AllDigits(s) == s # Null /\ Len(s) >= 1 /\ \A i \in 1..Len(s) : IsDigit(s[i])

\* xmlContent.match(/<Tag[^>]*>\s*<!\[CDATA\[(.*?)\]\]>/): the text of the
\* first element Tag of the block, Null without one
XmlMatch(x, tag) ==
  LET S == {j \in 1..Len(x) : x[j].k = tag}
  IN IF S = {} THEN Null ELSE x[MinOf(S)].v

\* xmlContent.match(/<Context[^>]*>(\d+)<\/Context>/), parsed; -1 without a match
ContextOf(x) ==
  LET S == {j \in 1..Len(x) : x[j].k = "Context" /\ AllDigits(x[j].v)}
  IN IF S = {} THEN -1 ELSE ParseInt(x[MinOf(S)].v)

\* the stage name of the record a block at position p lies in: the first
\* Name after the last record header before p (of the whole prefix when
\* there is no header), Null without one
RecordName(doc, p) ==
  LET begins == {j \in 1..(p - 1) : doc[j].k = "Begin"}
      start == IF begins = {} THEN 1 ELSE MaxOf(begins) + 1
      names == {j \in start..(p - 1) : doc[j].k = "Name" /\ Truthy(doc[j].v)}
  IN IF names = {} THEN Null ELSE doc[MinOf(names)].v

\* s.replace(/#[^#]+#/g, '[PARAM]')
RECURSIVE Redact(_)
Redact(s) ==
  LET hs == {i \in 1..Len(s) : s[i] = "#"}
      o == MinOf(hs)
      cs == {j \in hs : j > o}
      c == MinOf(cs)
  IN IF hs = {} \/ cs = {} THEN s
     ELSE IF c = o + 1 THEN SubSeq(s, 1, o) \o Redact(SubSeq(s, c, Len(s)))
     ELSE SubSeq(s, 1, o - 1) \o <<"[", "P", "A", "R", "A", "M", "]">>
          \o Redact(SubSeq(s, c + 1, Len(s)))

\* serverMatch[1].replace(...) when the block has a Server element
ConnectionOf(x) ==
  LET m == XmlMatch(x, "Server") IN IF m = Null THEN Null ELSE Redact(m)

\* stageTypeMap[stageName] || fallback
TypeOrElse(types, name, fallback) == OrElse(Lookup(types, name), fallback)

\* the source a context-1 block builds (before the guard of line 255)
SourceOf(x, name, types) ==
  LET m == XmlMatch(x, "SelectStatement")
      sql == IF m = Null THEN Null ELSE NormalizeSql(m)
  IN [name |-> name,
      type |-> TypeOrElse(types, name, <<"s", "o", "u", "r", "c", "e">>),
      columns |-> <<>>,
      sql |-> sql,
      where_clauses |-> WhereClausesOf(sql),
      table |-> IF Truthy(sql) THEN Null ELSE XmlMatch(x, "TableName"),
      connection |-> ConnectionOf(x),
      database |-> XmlMatch(x, "Database")]

\* the guard testing that the fields are set instead of that they are non-empty
SourceHasContentDefined(s) == s.sql # Null \/ s.table # Null \/ Len(s.columns) > 0

\* source.sql || source.table || source.columns.length > 0
SourceHasContent(s) == Truthy(s.sql) \/ Truthy(s.table) \/ Len(s.columns) > 0

\* modes[parseInt(writeModeMatch[1], 10)] when the index is in range
WriteModeOf(x) ==
  LET m == XmlMatch(x, "WriteMode")
      modes == <<<<"A", "p", "p", "e", "n", "d">>, <<"C", "r", "e", "a", "t", "e">>,
                 <<"T", "r", "u", "n", "c", "a", "t", "e">>,
                 <<"R", "e", "p", "l", "a", "c", "e">>>>
  IN IF AllDigits(m) /\ ParseInt(m) < Len(modes) THEN modes[ParseInt(m) + 1] ELSE Null

\* the target a context-2 block builds (before the guard of line 294)
TargetOf(x, name, types) ==
  [name |-> name,
   type |-> TypeOrElse(types, name, <<"t", "a", "r", "g", "e", "t">>),
   columns |-> <<>>,
   table |-> XmlMatch(x, "TableName"),
   dataset |-> Null,
   mode |-> WriteModeOf(x),
   connection |-> ConnectionOf(x),
   database |-> XmlMatch(x, "Database")]

\* target.table || target.dataset || target.columns.length > 0
TargetHasContent(t) == Truthy(t.table) \/ Truthy(t.dataset) \/ Len(t.columns) > 0

\* the matches of xmlPropsRegex from position from on: the positions
\* <<p, h>> of the XMLProperties name and of the sentinel block after it
RECURSIVE XmlBlocks(_, _)
XmlBlocks(doc, from) ==
  LET p == FirstTokVal(doc, from, "Name", <<"X", "M", "L", "P", "r", "o", "p", "e", "r", "t", "i", "e", "s">>)
      h == NextTokAny(doc, p, "HValue")
  IN IF h = 0 THEN <<>> ELSE <<<<p, h>>>> \o XmlBlocks(doc, h + 1)

\* result.sources after the loop over the property blocks
RECURSIVE SourcesOf(_, _, _)
SourcesOf(doc, blocks, types) ==
  IF blocks = <<>> THEN <<>>
  ELSE LET p == blocks[1][1]
           x == doc[blocks[1][2]].x
           name == RecordName(doc, p)
           s == SourceOf(x, name, types)
       IN (IF name # Null /\ ContextOf(x) = 1 /\ SourceHasContent(s) THEN <<s>> ELSE <<>>)
          \o SourcesOf(doc, Tail(blocks), types)

\* the targets the loop over the property blocks pushes
RECURSIVE BlockTargetsOf(_, _, _)
BlockTargetsOf(doc, blocks, types) ==
  IF blocks = <<>> THEN <<>>
  ELSE LET p == blocks[1][1]
           x == doc[blocks[1][2]].x
           name == RecordName(doc, p)
           t == TargetOf(x, name, types)
       IN (IF name # Null /\ ContextOf(x) = 2 /\ TargetHasContent(t) THEN <<t>> ELSE <<>>)
          \o BlockTargetsOf(doc, Tail(blocks), types)

(***************************************************************************)
(* SQL scripts                                                             *)
(***************************************************************************)

\* String.prototype.includes
Includes(s, sub) == \E i \in 1..(Len(s) - Len(sub) + 1) : SubSeq(s, i, i + Len(sub) - 1) = sub

\* /SELECT|INSERT|UPDATE|DELETE|CREATE|DROP|ALTER/i.test(sql)
HasSqlVerb(sql) ==
  LET up == [i \in 1..Len(sql) |-> UpperOf(sql[i])]
  IN \E verb \in {<<"S", "E", "L", "E", "C", "T">>, <<"I", "N", "S", "E", "R", "T">>,
                  <<"U", "P", "D", "A", "T", "E">>, <<"D", "E", "L", "E", "T", "E">>,
                  <<"C", "R", "E", "A", "T", "E">>, <<"D", "R", "O", "P">>,
                  <<"A", "L", "T", "E", "R">>} : Includes(up, verb)

\* sql.replace(/ +/g, ' ')
RECURSIVE CollapseSpaces(_)
CollapseSpaces(s) ==
  IF s = <<>> THEN <<>>
  ELSE IF s[1] = " "
       THEN LET rest == {i \in 2..Len(s) : s[i] # " "}
            IN <<" ">> \o (IF rest = {} THEN <<>>
                            ELSE CollapseSpaces(SubSeq(s, MinOf(rest), Len(s))))
  ELSE <<s[1]>> \o CollapseSpaces(Tail(s))

\* sql.replace(/\r?\n\s*/g, '\n')
RECURSIVE Unindent(_)
Unindent(s) ==
  LET brk == IF Len(s) >= 2 /\ s[1] = "\r" /\ s[2] = "\n" THEN 2
             ELSE IF Len(s) >= 1 /\ s[1] = "\n" THEN 1 ELSE 0
      rest == {i \in (brk + 1)..Len(s) : ~IsWs(s[i])}
  IN IF s = <<>> THEN <<>>
     ELSE IF brk > 0
          THEN <<"\n">> \o (IF rest = {} THEN <<>> ELSE Unindent(SubSeq(s, MinOf(rest), Len(s))))
     ELSE <<s[1]>> \o Unindent(Tail(s))

\* the scripts of one block, in the order BeforeSQL, AfterSQL, SelectStatement
RECURSIVE ScriptsOfBlock(_, _, _)
ScriptsOfBlock(x, name, tags) ==
  IF tags = <<>> THEN <<>>
  ELSE LET m == XmlMatch(x, tags[1])
           sql == Trim(m)
       IN (IF m # Null /\ HasSqlVerb(sql)
           THEN <<[stage |-> name, type |-> tags[1], sql |-> Unindent(CollapseSpaces(sql))]>>
           ELSE <<>>)
          \o ScriptsOfBlock(x, name, Tail(tags))

\* result.sql_scripts after the loop over the property blocks
RECURSIVE SqlScriptsOf(_, _)
SqlScriptsOf(doc, blocks) ==
  IF blocks = <<>> THEN <<>>
  ELSE LET x == doc[blocks[1][2]].x
           name == RecordName(doc, blocks[1][1])
       IN (IF name # Null /\ ContextOf(x) >= 0
           THEN ScriptsOfBlock(x, name, <<"BeforeSQL", "AfterSQL", "SelectStatement">>)
           ELSE <<>>)
          \o SqlScriptsOf(doc, Tail(blocks))

(***************************************************************************)
(* Lookups                                                                 *)
(***************************************************************************)

HasPipe(t) == t.v # Null /\ \E i \in 1..Len(t.v) : t.v[i] = "|"

\* Identifier "([^"]+P\d+)": a value ending in P and digits, after some text
IsPinId(v) ==
  v # Null /\ \E i \in 2..(Len(v) - 1) : v[i] = "P" /\ AllDigits(SubSeq(v, i + 1, Len(v)))

\* the input names inputRegex collects in a lookup section: a pin
\* identifier, the first Name after it and the first Partner value without
\* '|' after that; the greedy [^|]* then runs to the last quote before the
\* next '|' of the section, and the scan resumes there
RECURSIVE LookupInputs(_, _)
LookupInputs(sec, from) ==
  LET ids == {j \in from..Len(sec) : sec[j].k = "Identifier" /\ IsPinId(sec[j].v)}
      i == IF ids = {} THEN 0 ELSE MinOf(ids)
      n == NextTok(sec, i, "Name")
      ps == {j \in (n + 1)..Len(sec) : sec[j].k = "Partner" /\ ~HasPipe(sec[j])}
      q == IF n = 0 \/ ps = {} THEN 0 ELSE MinOf(ps)
      pipes == {j \in (q + 1)..Len(sec) : HasPipe(sec[j])}
  IN IF q = 0 THEN <<>>
     ELSE <<sec[n].v>> \o (IF pipes = {} THEN <<>> ELSE LookupInputs(sec, MinOf(pipes) + 1))

\* the names after every key-position marker, the zero markers included
RECURSIVE KeyColumnsAnyMarker(_, _)
KeyColumnsAnyMarker(sec, from) ==
  LET ks == {j \in from..Len(sec) : sec[j].k = "KeyPosition"}
      k == IF ks = {} THEN 0 ELSE MinOf(ks)
      n == NextTok(sec, k, "Name")
  IN IF n = 0 THEN <<>> ELSE <<sec[n].v>> \o KeyColumnsAnyMarker(sec, n + 1)

\* the names keyRegex collects: KeyPosition "([^0])" and the first Name after it
RECURSIVE KeyColumns(_, _)
KeyColumns(sec, from) ==
  LET ks == {j \in from..Len(sec) :
               sec[j].k = "KeyPosition" /\ sec[j].v # Null /\ Len(sec[j].v) = 1
               /\ sec[j].v # <<"0">>}
      k == IF ks = {} THEN 0 ELSE MinOf(ks)
      n == NextTok(sec, k, "Name")
  IN IF n = 0 THEN <<>> ELSE <<sec[n].v>> \o KeyColumns(sec, n + 1)

\* lookupTypeMap[code] || code
LookupTypeLabel(code) ==
  CASE code = <<"0">> -> <<"N", "o", "r", "m", "a", "l">>
    [] code = <<"1">> -> <<"S", "p", "a", "r", "s", "e">>
    [] code = <<"2">> -> <<"R", "a", "n", "g", "e">>
    [] code \in InheritedKeys -> Inherited(code)
    [] OTHER -> code

\* lookupConfig of a lookup section sec named name
LookupOf(sec, name) ==
  LET fail == MatchOne(sec, "LookupFail")
      ins == LookupInputs(sec, 1)
      lt == MatchOne(sec, "LookupType")
  IN [name |-> name,
      type |-> <<"L", "o", "o", "k", "u", "p">>,
      inputs |-> IF fail # Null THEN ins ELSE <<>>,
      output |-> Empty,
      key_columns |-> KeyColumns(sec, 1),
      fail_mode |-> IF fail # Null /\ ins # <<>> THEN fail ELSE Empty,
      lookup_type |-> IF lt = Null THEN Null ELSE LookupTypeLabel(lt),
      residual_handling |-> MatchOne(sec, "ResidualHandler")]

\* lookupConfig.inputs.length > 0 || lookupConfig.key_columns.length > 0
LookupHasContent(l) == Len(l.inputs) > 0 \/ Len(l.key_columns) > 0

\* result.lookups: one section per match of lookupRegex, from StageType
\* "PxLookup" over the first Name after it to the first record end
RECURSIVE LookupsOf(_, _)
LookupsOf(doc, from) ==
  LET t == FirstTokVal(doc, from, "StageType", <<"P", "x", "L", "o", "o", "k", "u", "p">>)
      n == NextTok(doc, t, "Name")
      e == NextTokAny(doc, n, "End")
      l == LookupOf(SubSeq(doc, t, e), doc[n].v)
  IN IF e = 0 THEN <<>>
     ELSE (IF LookupHasContent(l) THEN <<l>> ELSE <<>>) \o LookupsOf(doc, e + 1)

(***************************************************************************)
(* Dataset targets                                                         *)
(***************************************************************************)

\* the number of characters of a token: its filler, or keyword, quotes and value
TokLen(t) ==
  IF t.k = "Filler" THEN t.n
  ELSE IF t.k = "HValue" THEN 16 + Len(t.v)
  ELSE IF t.v = Null THEN 14
  ELSE 8 + Len(t.v)

\* the character index at which token j starts
RECURSIVE Offset(_, _)
Offset(doc, j) == IF j <= 1 THEN 0 ELSE Offset(doc, j - 1) + TokLen(doc[j - 1])

\* the positions of the tokens that lie whole in the characters lo..hi-1
Within(doc, lo, hi) ==
  {j \in 1..Len(doc) : Offset(doc, j) >= lo /\ Offset(doc, j) + TokLen(doc[j]) <= hi}

\* Math.max(0, a)
Max0(a) == IF a < 0 THEN 0 ELSE a

\* the window before a dataset field in which its stage name is looked for
NameWindow == 500

\* the window around a dataset field in which its mode is looked for
ModeWindow == 200

\* surrounding.match(/Name "([^"]+)"/): the first Name of the window before
\* position n, Null without one
SurroundingName(doc, n) ==
  LET idx == Offset(doc, n)
      S == {j \in Within(doc, Max0(idx - NameWindow), idx) :
              doc[j].k = "Name" /\ Truthy(doc[j].v)}
  IN IF S = {} THEN Null ELSE doc[MinOf(S)].v

\* contextRange.match(/Name "datasetmode"[\s\S]*?Value "([^"]+)"/)
DatasetMode(doc, n) ==
  LET idx == Offset(doc, n)
      W == Within(doc, Max0(idx - ModeWindow), idx + ModeWindow)
      ms == {j \in W : doc[j].k = "Name"
                       /\ doc[j].v = <<"d", "a", "t", "a", "s", "e", "t", "m", "o", "d", "e">>}
      vs == {j \in W : j > MinOf(ms) /\ doc[j].k = "Value" /\ Truthy(doc[j].v)}
  IN IF ms = {} \/ vs = {} THEN Null ELSE doc[MinOf(vs)].v

\* datasetPath.split('/').pop() || datasetPath
DatasetName(path) == LET p == Split(path, "/") IN OrElse(p[Len(p)], path)

\* the target a dataset field at position n with its value at v builds; the
\* name is Null when the window holds no stage name, and the code pushes the
\* target all the same (line 419)
DatasetTargetOf(doc, n, v) ==
  [name |-> SurroundingName(doc, n),
   type |-> <<"d", "a", "t", "a", "s", "e", "t">>,
   columns |-> <<>>,
   table |-> Null,
   dataset |-> DatasetName(doc[v].v),
   mode |-> DatasetMode(doc, n),
   connection |-> Null,
   database |-> Null]

\* the targets the loop over datasetRegex pushes: Name "dataset" and the
\* first Value "..." after it
RECURSIVE DatasetTargetsOf(_, _)
DatasetTargetsOf(doc, from) ==
  LET n == FirstTokVal(doc, from, "Name", <<"d", "a", "t", "a", "s", "e", "t">>)
      v == NextTok(doc, n, "Value")
  IN IF v = 0 THEN <<>>
     ELSE <<DatasetTargetOf(doc, n, v)>> \o DatasetTargetsOf(doc, v + 1)

(***************************************************************************)
(* Transforms                                                              *)
(***************************************************************************)

\* the words that mark a line of generated code as boilerplate
Boilerplate ==
  {<<"R", "o", "w", "R", "e", "j", "e", "c", "t", "e", "d">>,
   <<"N", "u", "l", "l", "S", "e", "t">>,
   <<"i", "n", "p", "u", "t", "n", "a", "m", "e">>,
   <<"o", "u", "t", "p", "u", "t", "n", "a", "m", "e">>,
   <<"i", "n", "i", "t", "i", "a", "l", "i", "z", "e">>,
   <<"m", "a", "i", "n", "l", "o", "o", "p">>,
   <<"f", "i", "n", "i", "s", "h">>,
   <<"w", "r", "i", "t", "e", "r", "e", "c", "o", "r", "d">>}

\* every line that holds an assignment, the boilerplate included
IsRuleLineAnyAssignment(line) == Includes(line, <<"=">>) /\ Trim(line) # Empty

\* the condition of lines 440-450 and the non-empty test of line 452
IsRuleLine(line) ==
  /\ Includes(line, <<"=">>)
  /\ ~StartsWith(Trim(line), <<"/", "/">>)
  /\ ~StartsWith(Trim(line), <<"i", "n", "t">>)
  /\ \A w \in Boilerplate : ~Includes(line, w)
  /\ Trim(line) # Empty

\* rules: the surviving lines, trimmed, white space collapsed
RulesOf(code) ==
  LET lines == Split(code, "\n")
      kept == KeepAt(lines, {i \in 1..Len(lines) : IsRuleLine(lines[i])}, 1)
  IN [i \in 1..Len(kept) |-> CollapseWs(Trim(kept[i]))]

\* the literal name of a transform without a record name
UnknownName == <<"u", "n", "k", "n", "o", "w", "n">>

\* result.transforms: one per match of trxRegex with at least one rule
RECURSIVE TransformsOf(_, _)
TransformsOf(doc, from) ==
  LET n == FirstTokVal(doc, from, "Name", <<"T", "r", "x", "G", "e", "n", "C", "o", "d", "e">>)
      h == NextTokAny(doc, n, "HValue")
      name == RecordName(doc, n)
      rules == RulesOf(Trim(doc[h].v))
  IN IF h = 0 THEN <<>>
     ELSE (IF Len(rules) > 0
           THEN <<[name |-> IF name = Null THEN UnknownName ELSE name, rules |-> rules]>>
           ELSE <<>>)
          \o TransformsOf(doc, h + 1)

(***************************************************************************)
(* Columns of the output pins                                              *)
(***************************************************************************)

\* typeMap[sqlType] || `UNKNOWN(${sqlType})`
SqlTypeName(sqlType) ==
  CASE sqlType = <<"1">> -> <<"C", "H", "A", "R">>
    [] sqlType = <<"2">> -> <<"N", "U", "M", "E", "R", "I", "C">>
    [] sqlType = <<"3">> -> <<"D", "E", "C", "I", "M", "A", "L">>
    [] sqlType = <<"4">> -> <<"I", "N", "T", "E", "G", "E", "R">>
    [] sqlType = <<"5">> -> <<"S", "M", "A", "L", "L", "I", "N", "T">>
    [] sqlType = <<"6">> -> <<"F", "L", "O", "A", "T">>
    [] sqlType = <<"7">> -> <<"R", "E", "A", "L">>
    [] sqlType = <<"8">> -> <<"D", "O", "U", "B", "L", "E">>
    [] sqlType = <<"9">> -> <<"D", "A", "T", "E">>
    [] sqlType = <<"1", "0">> -> <<"T", "I", "M", "E">>
    [] sqlType = <<"1", "1">> -> <<"T", "I", "M", "E", "S", "T", "A", "M", "P">>
    [] sqlType = <<"1", "2">> -> <<"V", "A", "R", "C", "H", "A", "R">>
    [] sqlType = <<"-", "1">> -> <<"L", "O", "N", "G", "V", "A", "R", "C", "H", "A", "R">>
    [] sqlType = <<"-", "2">> -> <<"B", "I", "N", "A", "R", "Y">>
    [] sqlType = <<"-", "3">> -> <<"V", "A", "R", "B", "I", "N", "A", "R", "Y">>
    [] sqlType = <<"-", "4">> -> <<"L", "O", "N", "G", "V", "A", "R", "B", "I", "N", "A", "R", "Y">>
    [] sqlType = <<"-", "5">> -> <<"B", "I", "G", "I", "N", "T">>
    [] sqlType = <<"-", "6">> -> <<"T", "I", "N", "Y", "I", "N", "T">>
    [] sqlType = <<"-", "7">> -> <<"B", "I", "T">>
    [] sqlType = <<"-", "8">> -> <<"W", "C", "H", "A", "R">>
    [] sqlType = <<"-", "9">> -> <<"W", "V", "A", "R", "C", "H", "A", "R">>
    [] sqlType = <<"-", "1", "0">> -> <<"W", "L", "O", "N", "G", "V", "A", "R", "C", "H", "A", "R">>
    [] sqlType = <<"9", "1">> -> <<"T", "Y", "P", "E", "_", "D", "A", "T", "E">>
    [] sqlType = <<"9", "2">> -> <<"T", "Y", "P", "E", "_", "T", "I", "M", "E">>
    [] sqlType = <<"9", "3">> -> <<"T", "Y", "P", "E", "_", "T", "I", "M", "E", "S", "T", "A", "M", "P">>
    [] sqlType \in InheritedKeys -> Inherited(sqlType)
    [] OTHER -> <<"U", "N", "K", "N", "O", "W", "N", "(">> \o sqlType \o <<")">>

\* the type names that take a precision and a scale
SizedTypes == {<<"N", "U", "M", "E", "R", "I", "C">>, <<"D", "E", "C", "I", "M", "A", "L">>, <<"C", "H", "A", "R">>, <<"V", "A", "R", "C", "H", "A", "R">>}

\* mapSqlType(sqlType, precision, scale)
MapSqlType(sqlType, precision, scale) ==
  LET typeName == SqlTypeName(sqlType)
  IN IF typeName \in SizedTypes /\ Truthy(precision) /\ precision # <<"0">>
     THEN IF Truthy(scale) /\ scale # <<"0">>
          THEN typeName \o <<"(">> \o precision \o <<",">> \o scale \o <<")">>
          ELSE typeName \o <<"(">> \o precision \o <<")">>
     ELSE typeName

\* Identifier "V.*?P\d+": a value that starts with V and ends in P and digits
IsOutputPinId(v) ==
  /\ v # Null /\ Len(v) >= 3 /\ v[1] = "V"
  /\ \E i \in 2..(Len(v) - 1) : v[i] = "P" /\ AllDigits(SubSeq(v, i + 1, Len(v)))

\* colName.startsWith("APT_") || colName.startsWith("DSLink")
IsSystemColumn(colName) == StartsWith(colName, <<"A", "P", "T", "_">>) \/ StartsWith(colName, <<"D", "S", "L", "i", "n", "k">>)

\* the columns colRegex finds in the content of an output pin, the system
\* columns skipped: a Name and the first SqlType, Precision, Scale and
\* Nullable after it, in this order
RECURSIVE ColumnsFrom(_, _)
ColumnsFrom(content, from) ==
  LET n == FirstTok(content, from, "Name")
      t == NextTok(content, n, "SqlType")
      p == NextTok(content, t, "Precision")
      c == NextTok(content, p, "Scale")
      u == NextTok(content, c, "Nullable")
  IN IF from > Len(content) \/ n = 0 \/ t = 0 \/ p = 0 \/ c = 0 \/ u = 0 THEN <<>>
     ELSE (IF IsSystemColumn(content[n].v) THEN <<>>
           ELSE <<[name |-> content[n].v,
                   type |-> MapSqlType(content[t].v, content[p].v, content[c].v),
                   nullable |-> content[u].v = <<"1">>,
                   derivation |-> Null]>>)
          \o ColumnsFrom(content, u + 1)

\* columns.find(c => c.name === colName) gets the derivation, trimmed and
\* with its white space collapsed
SetDerivation(columns, colName, derivation) ==
  LET S == {i \in 1..Len(columns) : columns[i].name = colName}
  IN IF S = {} THEN columns
     ELSE [columns EXCEPT ![MinOf(S)].derivation = CollapseWs(Trim(derivation))]

\* the columns after the matches of derivRegex from position from on
RECURSIVE WithDerivations(_, _, _)
WithDerivations(columns, content, from) ==
  LET n == FirstTok(content, from, "Name")
      d == NextTok(content, n, "Derivation")
  IN IF from > Len(content) \/ n = 0 \/ d = 0 THEN columns
     ELSE WithDerivations(SetDerivation(columns, content[n].v, content[d].v), content, d + 1)

\* the matches of outputRegex from position from on: the link name and the
\* content between Columns "COutputColumn" and the next MetaBag or END DSRECORD
RECURSIVE OutputPins(_, _)
OutputPins(doc, from) ==
  LET ids == {j \in from..Len(doc) : doc[j].k = "Identifier" /\ IsOutputPinId(doc[j].v)}
      i == IF ids = {} THEN 0 ELSE MinOf(ids)
      n == NextTok(doc, i, "Name")
      c == IF n = 0 THEN 0 ELSE FirstTokVal(doc, n + 1, "Columns", <<"C", "O", "u", "t", "p", "u", "t", "C", "o", "l", "u", "m", "n">>)
      ends == {j \in (c + 1)..Len(doc) : doc[j].k \in {"MetaBag", "End"}}
      e == MinOf(ends)
  IN IF i = 0 \/ n = 0 \/ c = 0 \/ ends = {} THEN <<>>
     ELSE <<[link |-> doc[n].v, content |-> SubSeq(doc, c + 1, e - 1)]>>
          \o OutputPins(doc, e + 1)

\* the columns of one output pin
ColumnsOfPin(pin) == WithDerivations(ColumnsFrom(pin.content, 1), pin.content, 1)

\* columnInfoMap: link name -> columns, for the pins with a column, the last
\* pin of a link name winning
ColumnInfoMap(doc) ==
  LET pins == OutputPins(doc, 1)
      at == {i \in 1..Len(pins) : Len(ColumnsOfPin(pins[i])) > 0}
  IN [ln \in {pins[i].link : i \in at} |->
        ColumnsOfPin(pins[MaxOf({i \in at : pins[i].link = ln})])]

\* lines 589-592: a connection gets columnInfoMap[linkName] when linkName is
\* in columnInfoMap, as a key or as an inherited property name
AttachColumns(flow, columnInfoMap) ==
  [i \in 1..Len(flow) |->
     IF flow[i].link \in DOMAIN columnInfoMap \/ flow[i].link \in InheritedKeys
     THEN [link |-> flow[i].link, from |-> flow[i].from, to |-> flow[i].to,
           columns |-> Lookup(columnInfoMap, flow[i].link)]
     ELSE flow[i]]

(***************************************************************************)
(* Flow                                                                    *)
(***************************************************************************)

\* linkNamesMatch[1].split('|').filter(s => s.trim())
LinkNamesOf(raw) ==
  LET p == Split(raw, "|")
  IN KeepAt(p, {i \in 1..Len(p) : Truthy(Trim(p[i]))}, 1)

\* the source identifier read from the last pin when the index is past the list
SourceIdAtClamped(sourcePins, i) ==
  LET pin == sourcePins[IF i <= Len(sourcePins) THEN i ELSE Len(sourcePins)]
  IN IF Truthy(pin) /\ Truthy(Split(pin, "P")[1]) THEN Split(pin, "P")[1] ELSE Null

\* sourceId of index i (from 1): the text of the i-th pin before its first
\* 'P', Null when the index is past the list or the text is empty
SourceIdAt(sourcePins, i) ==
  IF i <= Len(sourcePins) /\ Truthy(sourcePins[i])
  THEN LET sourceParts == Split(sourcePins[i], "P")
       IN IF Truthy(sourceParts[1]) THEN sourceParts[1] ELSE Null
  ELSE Null

\* targetId of index i (from 1)
TargetIdAt(targetStages, i) ==
  IF i <= Len(targetStages) /\ Truthy(targetStages[i]) THEN targetStages[i] ELSE Null

\* stageMap[id] || "Unknown"
Resolve(map, id) == OrElse(Lookup(map, id), Unknown)

\* fromStage !== "Unknown" && toStage !== "Unknown" && fromStage !== " " && toStage !== " "
BothKnown(fromStage, toStage) ==
  fromStage # Unknown /\ toStage # Unknown /\ fromStage # Blank /\ toStage # Blank

\* what one round of the loop of line 561 pushes: << >> or one connection
FlowEntryAt(linkNames, sourcePins, targetStages, map, i) ==
  LET sourceId == SourceIdAt(sourcePins, i)
      targetId == TargetIdAt(targetStages, i)
      fromStage == Resolve(map, sourceId)
      toStage == Resolve(map, targetId)
  IN IF sourceId # Null /\ targetId # Null /\ BothKnown(fromStage, toStage)
     THEN <<[link |-> linkNames[i], from |-> fromStage, to |-> toStage]>>
     ELSE <<>>

\* the connections of rounds i, i+1, ... of the loop
RECURSIVE PrimaryFrom(_, _, _, _, _)
PrimaryFrom(linkNames, sourcePins, targetStages, map, i) ==
  IF i > Len(linkNames) THEN <<>>
  ELSE FlowEntryAt(linkNames, sourcePins, targetStages, map, i)
       \o PrimaryFrom(linkNames, sourcePins, targetStages, map, i + 1)

\* the flow of the primary strategy (LinkNames present)
PrimaryFlow(doc, map) ==
  LET sourcePinsMatch == MatchAny(doc, "LinkSourcePinIDs")
      targetStagesMatch == MatchAny(doc, "TargetStageIDs")
  IN IF sourcePinsMatch # Null /\ targetStagesMatch # Null
     THEN AttachColumns(PrimaryFrom(LinkNamesOf(MatchAny(doc, "LinkNames")),
                                    Split(sourcePinsMatch, "|"),
                                    Split(targetStagesMatch, "|"), map, 1),
                        ColumnInfoMap(doc))
     ELSE <<>>

\* stageMap[id] || id
ResolveOrId(map, id) == OrElse(Lookup(map, id), id)

\* the connection of a link record with the identifiers fromStageId, toStageId
LinkEntry(map, fromStageId, toStageId) ==
  LET fromStageName == ResolveOrId(map, fromStageId)
      toStageName == ResolveOrId(map, toStageId)
  IN [link |-> fromStageName \o <<"_", "t", "o", "_">> \o toStageName,
      from |-> fromStageName, to |-> toStageName]

\* the flow of the fallback strategy: one connection per match of linkRegex
\* (record header, StageType "Link", FromStageID, ToStageID, record end)
RECURSIVE FallbackFlow(_, _, _)
FallbackFlow(doc, map, from) ==
  LET b == FirstTokAny(doc, from, "Begin")
      t == IF b = 0 THEN 0 ELSE FirstTokVal(doc, b + 1, "StageType", <<"L", "i", "n", "k">>)
      f == NextTok(doc, t, "FromStageID")
      g == NextTok(doc, f, "ToStageID")
      e == NextTokAny(doc, g, "End")
  IN IF e = 0 THEN <<>>
     ELSE <<LinkEntry(map, doc[f].v, doc[g].v)>> \o FallbackFlow(doc, map, e + 1)

\* linkNamesMatch
HasLinkNames(doc) == MatchAny(doc, "LinkNames") # Null

(***************************************************************************)
(* Validator                                                               *)
(***************************************************************************)

\* the first occurrence of every element of a sequence (new Set([...]))
RECURSIVE Dedupe(_)
Dedupe(seq) ==
  IF seq = <<>> THEN <<>>
  ELSE LET init == Dedupe(SubSeq(seq, 1, Len(seq) - 1))
           last == seq[Len(seq)]
       IN IF \E i \in 1..Len(init) : init[i] = last THEN init ELSE Append(init, last)

NamesOf(seq) == [i \in 1..Len(seq) |-> seq[i].name]

\* `${stage}` of a name that may be undefined
NameText(name) ==
  IF name = Null THEN <<"u", "n", "d", "e", "f", "i", "n", "e", "d">> ELSE name

\* `Stage "${stage}" appears disconnected from the flow`
DisconnectedMsg(stage) ==
  <<"S", "t", "a", "g", "e", " ", "\"">>
  \o NameText(stage)
  \o <<"\"", " ", "a", "p", "p", "e", "a", "r", "s", " ", "d", "i", "s", "c", "o", "n",
   "n", "e", "c", "t", "e", "d", " ", "f", "r", "o", "m", " ", "t", "h", "e", " ", "f",
   "l", "o", "w">>

MissingNameMsg == <<"M", "i", "s", "s", "i", "n", "g", " ", "j", "o", "b", " ", "n", "a", "m", "e">>

MissingTypeMsg == <<"M", "i", "s", "s", "i", "n", "g", " ", "j", "o", "b", " ", "t", "y", "p", "e">>

NoStagesMsg ==
  <<"N", "o", " ", "s", "o", "u", "r", "c", "e", "s", " ", "o", "r", " ", "t", "a",
    "r", "g", "e", "t", "s", " ", "f", "o", "u", "n", "d", " ", "-", " ", "p", "o",
    "s", "s", "i", "b", "l", "e", " ", "p", "a", "r", "s", "i", "n", "g", " ", "i",
    "s", "s", "u", "e">>

\* the stages the validator checks: data.flow.length > 0 guards the check
CheckedStages(data) ==
  IF Len(data.flow) > 0
  THEN Dedupe(NamesOf(data.sources) \o NamesOf(data.targets) \o NamesOf(data.transforms)
              \o NamesOf(data.lookups) \o NamesOf(data.specialized_stages))
  ELSE <<>>

\* !fromStages.has(stage) && !toStages.has(stage)
Disconnected(data, stage) ==
  \A i \in 1..Len(data.flow) : data.flow[i].from # stage /\ data.flow[i].to # stage

\* validateExtractedData
ValidateExtractedData(data) ==
  LET all == CheckedStages(data)
      dis == KeepAt(all, {i \in 1..Len(all) : Disconnected(data, all[i])}, 1)
      issues ==
        (IF ~Truthy(data.name) THEN <<MissingNameMsg>> ELSE <<>>)
        \o (IF ~Truthy(data.type) THEN <<MissingTypeMsg>> ELSE <<>>)
        \o (IF Len(data.sources) = 0 /\ Len(data.targets) = 0 THEN <<NoStagesMsg>> ELSE <<>>)
        \o [i \in 1..Len(dis) |-> DisconnectedMsg(dis[i])]
  IN [valid |-> Len(issues) = 0, issues |-> issues]

(***************************************************************************)
(* extractDSXJobInfo as a state machine                                    *)
(***************************************************************************)

VARIABLES
  doc,          \* dsx_content, the document being parsed
  now,          \* the clock read by new Date()
  pc,           \* the position in extractDSXJobInfo
  result,       \* the JobInfo under construction
  stageMap,     \* stage identifier -> stage name
  stageTypeMap, \* stage name -> stage type
  validation,   \* what validateExtractedData returned
  returned,     \* the JobInfos handed to the caller, one per call that returned
  uploaded,       \* uploadedFiles, the argument of handleFilesUploaded
  upc,            \* the position in handleFilesUploaded
  zipResults,     \* what extractDSXFilesFromZip settled with, one per archive
  filesToProcess, \* the files handed to processDSXFiles
  results,        \* the local results of processDSXFiles
  batch,          \* what the promise of processDSXFiles settled with
  isProcessing,   \* the page state isProcessing
  files,          \* the page state files (the explorer list)
  processingResults, \* the page state processingResults
  toasts,         \* the toasts of the handler that started last, in order
  saved           \* the entries of the archive handed to saveAs last

extractVars == <<doc, now, pc, result, stageMap, stageTypeMap, validation, returned>>

pageVars ==
  <<uploaded, upc, zipResults, filesToProcess, results, batch, isProcessing, files,
    processingResults, toasts, saved>>

vars == <<extractVars, pageVars>>

\* new Date().toISOString(), for the clock values of the model
IsoOf(t) == <<"2", "0", "2", "6", "-", "1", "1", "-", "0">> \o <<CHOOSE c \in {"1", "2", "3", "4", "5", "6", "7", "8", "9"} : DigitVal(c) = t>>

\* the empty map
NoMap == [id \in {} |-> Empty]

\* the value of the locals before they are assigned
NoValidation == [valid |-> TRUE, issues |-> <<>>]

\* the result of lines 82-99
InitialResult(t) ==
  [name |-> Empty, description |-> Empty, type |-> Empty,
   parameters |-> <<>>, sources |-> <<>>, targets |-> <<>>, transforms |-> <<>>,
   sql_scripts |-> <<>>, lookups |-> <<>>, filters |-> <<>>, specialized_stages |-> <<>>,
   flow |-> <<>>,
   metadata |-> [extractedAt |-> IsoOf(t), version |-> <<"1", ".", "2", ".", "0">>]]

\* lines 80-99: the call builds the initial result
Call ==
  /\ pc = "idle"
  /\ result' = InitialResult(now)
  /\ pc' = "header"
  /\ UNCHANGED <<doc, now, stageMap, stageTypeMap, validation, returned>>
  /\ UNCHANGED pageVars

\* lines 101-127: job name, description, job type
ExtractHeader ==
  /\ pc = "header"
  /\ result' = [result EXCEPT !.name = JobName(doc),
                              !.description = JobDescription(doc),
                              !.type = JobType(doc)]
  /\ pc' = "parameters"
  /\ UNCHANGED <<doc, now, stageMap, stageTypeMap, validation, returned>>
  /\ UNCHANGED pageVars

\* lines 129-159: the parameters
ExtractParameters ==
  /\ pc = "parameters"
  /\ result' = [result EXCEPT !.parameters = @ \o Parameters(doc, 1)]
  /\ pc' = "resolve"
  /\ UNCHANGED <<doc, now, stageMap, stageTypeMap, validation, returned>>
  /\ UNCHANGED pageVars

\* lines 161-188: both stage lists present, the two maps are built
ResolveStages ==
  /\ pc = "resolve"
  /\ HasStageLists(doc)
  /\ stageMap' = StageMap(doc)
  /\ stageTypeMap' = StageTypeMap(doc)
  /\ pc' = "blocks"
  /\ UNCHANGED <<doc, now, result, validation, returned>>
  /\ UNCHANGED pageVars

\* line 165 not taken: everything up to line 619 is skipped
SkipStages ==
  /\ pc = "resolve"
  /\ ~HasStageLists(doc)
  /\ pc' = "validate"
  /\ UNCHANGED <<doc, now, result, stageMap, stageTypeMap, validation, returned>>
  /\ UNCHANGED pageVars

\* lines 190-320: sources, targets and SQL scripts of the property blocks
ExtractBlocks ==
  /\ pc = "blocks"
  /\ LET blocks == XmlBlocks(doc, 1)
     IN result' = [result EXCEPT !.sources = @ \o SourcesOf(doc, blocks, stageTypeMap),
                                 !.targets = @ \o BlockTargetsOf(doc, blocks, stageTypeMap),
                                 !.sql_scripts = @ \o SqlScriptsOf(doc, blocks)]
  /\ pc' = "lookups"
  /\ UNCHANGED <<doc, now, stageMap, stageTypeMap, validation, returned>>
  /\ UNCHANGED pageVars

\* lines 322-384: the lookups
ExtractLookups ==
  /\ pc = "lookups"
  /\ result' = [result EXCEPT !.lookups = @ \o LookupsOf(doc, 1)]
  /\ pc' = "datasets"
  /\ UNCHANGED <<doc, now, stageMap, stageTypeMap, validation, returned>>
  /\ UNCHANGED pageVars

\* lines 386-420: the dataset targets, appended to the targets
ExtractDatasetTargets ==
  /\ pc = "datasets"
  /\ result' = [result EXCEPT !.targets = @ \o DatasetTargetsOf(doc, 1)]
  /\ pc' = "transforms"
  /\ UNCHANGED <<doc, now, stageMap, stageTypeMap, validation, returned>>
  /\ UNCHANGED pageVars

\* lines 422-489: the transforms
ExtractTransforms ==
  /\ pc = "transforms"
  /\ result' = [result EXCEPT !.transforms = @ \o TransformsOf(doc, 1)]
  /\ pc' = "flow"
  /\ UNCHANGED <<doc, now, stageMap, stageTypeMap, validation, returned>>
  /\ UNCHANGED pageVars

\* lines 547-598: the primary strategy, taken when LinkNames matches
AssemblePrimaryFlow ==
  /\ pc = "flow"
  /\ HasLinkNames(doc)
  /\ result' = [result EXCEPT !.flow = @ \o PrimaryFlow(doc, stageMap)]
  /\ pc' = "validate"
  /\ UNCHANGED <<doc, now, stageMap, stageTypeMap, validation, returned>>
  /\ UNCHANGED pageVars

\* lines 599-618: the fallback strategy
AssembleFallbackFlow ==
  /\ pc = "flow"
  /\ ~HasLinkNames(doc)
  /\ result' = [result EXCEPT !.flow = @ \o FallbackFlow(doc, stageMap, 1)]
  /\ pc' = "validate"
  /\ UNCHANGED <<doc, now, stageMap, stageTypeMap, validation, returned>>
  /\ UNCHANGED pageVars

\* a validation that empties the flow of a JobInfo it finds issues in
ValidateClearing ==
  /\ pc = "validate"
  /\ validation' = ValidateExtractedData(result)
  /\ result' = IF validation'.valid THEN result ELSE [result EXCEPT !.flow = <<>>, !.sources = <<>>]
  /\ pc' = "return"
  /\ UNCHANGED <<doc, now, stageMap, stageTypeMap, returned>>
  /\ UNCHANGED pageVars

\* lines 627-631: the validation, whose outcome is only logged
Validate ==
  /\ pc = "validate"
  /\ validation' = ValidateExtractedData(result)
  /\ pc' = "return"
  /\ UNCHANGED <<doc, now, result, stageMap, stageTypeMap, returned>>
  /\ UNCHANGED pageVars

\* line 633
Return ==
  /\ pc = "return"
  /\ returned' = Append(returned, result)
  /\ pc' = "done"
  /\ UNCHANGED <<doc, now, result, stageMap, stageTypeMap, validation>>
  /\ UNCHANGED pageVars

\* the most calls on one document
MaxCalls == 2

\* a later call on the same document whose result, maps and validation are
\* left as the call before had them
CallAgainKeeping ==
  /\ pc = "done"
  /\ Len(returned) < MaxCalls
  /\ \E t \in now..MaxCalls : now' = t
  /\ result' = [result EXCEPT !.metadata.extractedAt = IsoOf(now')]
  /\ pc' = "header"
  /\ UNCHANGED <<doc, stageMap, stageTypeMap, validation, returned>>
  /\ UNCHANGED pageVars

\* lines 80-99, 169, 180: a later call on the same document, at a later or
\* the same clock value, starts from a new result and new maps
CallAgain ==
  /\ pc = "done"
  /\ Len(returned) < MaxCalls
  /\ \E t \in now..MaxCalls : now' = t
  /\ result' = InitialResult(now')
  /\ stageMap' = NoMap
  /\ stageTypeMap' = NoMap
  /\ validation' = NoValidation
  /\ pc' = "header"
  /\ UNCHANGED <<doc, returned>>
  /\ UNCHANGED pageVars

(***************************************************************************)
(* The documents of the model                                              *)
(***************************************************************************)

\* the longest LinkNames, LinkSourcePinIDs and TargetStageIDs lists
MaxLinks == 2

\* the most link records of a document without LinkNames
MaxLinkRecords == 2

\* arr.join(sep)
RECURSIVE Join(_, _)
Join(seq, sep) ==
  IF seq = <<>> THEN <<>>
  ELSE IF Len(seq) = 1 THEN seq[1]
  ELSE seq[1] \o <<sep>> \o Join(Tail(seq), sep)

\* all sequences of length 1..n whose i-th entry is drawn from at(i)
ListsUpTo(n, at(_)) ==
  LET all == UNION {at(i) : i \in 1..n}
  IN UNION {{l \in [1..m -> all] : \A i \in 1..m : l[i] \in at(i)} : m \in 1..n}

DigitOf(i) == CHOOSE c \in {"1", "2", "3", "4", "5", "6", "7", "8", "9"} : DigitVal(c) = i

\* the stage identifiers V1, V2, V3 and the names of the stage lists
StageIdAt(i) == <<"V", DigitOf(((i - 1) % 3) + 1)>>

StageListTok == Tok("StageList", Join([i \in 1..3 |-> StageIdAt(i)], "|"))

\* StageNames as written: plain, with a blank name, with the placeholder as a
\* name, padded, and one name short
StageNamesToks ==
  {Tok("StageNames", v) :
     v \in {<<"A", "|", "B", "|", "C">>,
            <<"A", "|", " ", "|", "C">>,
            <<"A", "|", "U", "n", "k", "n", "o", "w", "n", "|", "C">>,
            <<" ", "A", " ", "|", "B", "|", "C", " ">>,
            <<"A", "|", "B">>}}

\* an identifier that is in no stage list
StrayId == <<"V", "9">>

\* the link lists as written, entry i drawn from the choices of position i
LinkNameAt(i) == {<<" ">>, <<"L", DigitOf(i)>>}

PinAt(i) == {StageIdAt(i) \o <<"P", "1">>, StrayId \o <<"P", "2">>, <<>>}

TargetAt(i) == {StageIdAt(i + 1), <<>>}

\* a list field, or nothing when the field is absent
ListToks(k, lists) == {<<>>} \cup {<<Tok(k, Join(l, "|"))>> : l \in lists}

\* StageNames with a blank name or the placeholder as a name
OddStageNamesToks ==
  {Tok("StageNames", v) :
     v \in {<<"A", "|", "B", "|", "C">>,
            <<"A", "|", " ", "|", "C">>,
            <<"A", "|", "U", "n", "k", "n", "o", "w", "n", "|", "C">>}}

\* documents with the three parallel lists
DocsLinks ==
  {<<StageListTok, sn>> \o ln \o sp \o ts :
     sn \in OddStageNamesToks,
     ln \in ListToks("LinkNames", ListsUpTo(MaxLinks, LinkNameAt)) \ {<<>>},
     sp \in ListToks("LinkSourcePinIDs", ListsUpTo(MaxLinks, PinAt)),
     ts \in ListToks("TargetStageIDs", ListsUpTo(MaxLinks, TargetAt))}

\* a link record
LinkRecord(f, t) ==
  <<Tok("Begin", Null), Tok("StageType", <<"L", "i", "n", "k">>), Tok("FromStageID", f),
    Tok("ToStageID", t), Tok("End", Null)>>

LinkEnds == {StageIdAt(1), StageIdAt(2), StrayId}

RECURSIVE LinkRecordDocs(_)
LinkRecordDocs(n) ==
  IF n = 0 THEN {<<>>}
  ELSE LET shorter == LinkRecordDocs(n - 1)
       IN shorter \cup {d \o LinkRecord(f, t) : d \in shorter, f \in LinkEnds, t \in LinkEnds}

\* documents without LinkNames, with link records
DocsLinkRecords ==
  {<<StageListTok, sn>> \o d : sn \in StageNamesToks, d \in LinkRecordDocs(MaxLinkRecords)}

\* a property block: the XMLProperties name and the sentinel block after it
PropertyBlock(x) == <<Tok("Name", <<"X", "M", "L", "P", "r", "o", "p", "e", "r", "t", "i", "e", "s">>), Block(x)>>

\* the elements a property block may hold
ContextEls == {<<>>, <<Tok("Context", <<"1">>)>>, <<Tok("Context", <<"2">>)>>}

SelectEls ==
  {<<>>, <<Tok("SelectStatement", <<"/", "*", "c", "*", "/">>)>>,
   <<Tok("SelectStatement", <<"s", "e", "l", "e", "c", "t", " ", "1", " ", "w", "h", "e", "r", "e", " ", "x">>)>>}

TableEls == {<<>>, <<Tok("TableName", <<"T">>)>>}

\* the record names: none, a stage of the flow, a stage outside the flow
RecordNames == {<<>>, <<Tok("Name", <<"A">>)>>, <<Tok("Name", <<"Z">>)>>}

\* a stage record with one property block
StageRecords ==
  {<<Tok("Begin", Null)>> \o nm \o <<Tok("StageType", <<"D", "B">>)>>
     \o PropertyBlock(c \o q \o t) \o <<Tok("End", Null)>> :
     nm \in RecordNames, c \in ContextEls, q \in SelectEls, t \in TableEls}

\* the filler before a dataset field: none, or more than the name window
Fillers == {0, NameWindow + 100}

\* a dataset field, with or without a stage name before it
DatasetParts ==
  {<<>>} \cup
  {nm \o <<Filler(n), Tok("Name", <<"d", "a", "t", "a", "s", "e", "t">>), Tok("Value", <<"/", "d", "/", "o", ".", "d", "s">>)>> :
     nm \in {<<>>, <<Tok("Name", <<"Z">>)>>}, n \in Fillers}

\* a transformation-code block: with a rule or without, named or not
TransformParts ==
  {<<>>} \cup
  {<<Tok("Begin", Null)>> \o nm \o <<Tok("Name", <<"T", "r", "x", "G", "e", "n", "C", "o", "d", "e">>), Code(c), Tok("End", Null)>> :
     nm \in {<<>>, <<Tok("Name", <<"B">>)>>},
     c \in {<<" ", "a", " ", " ", "=", " ", "b", "\n", "/", "/", "c", "=", "d">>, <<"i", "n", "t", " ", "i", "=", "0">>}}

\* a lookup record with one key column
LookupParts ==
  {<<>>,
   <<Tok("Begin", Null), Tok("StageType", <<"P", "x", "L", "o", "o", "k", "u", "p">>), Tok("Name", <<"K">>),
     Tok("KeyPosition", <<"1">>), Tok("Name", <<"c">>), Tok("End", Null)>>}

\* no link at all, or the link L1 from V1 (A) to V2 (B)
FlowParts ==
  {<<>>,
   <<Tok("LinkNames", <<"L", "1">>), Tok("LinkSourcePinIDs", <<"V", "1", "P", "1">>),
     Tok("TargetStageIDs", <<"V", "2">>)>>}

\* the job header and both stage lists
StageLists ==
  <<Tok("Identifier", <<"J">>), Tok("JobType", <<"1">>), StageListTok,
    Tok("StageNames", <<"A", "|", "B", "|", "C">>)>>

\* documents with stage records, dataset fields, transforms and lookups
DocsStages ==
  {StageLists \o r \o d \o x \o l \o f :
     r \in StageRecords, d \in DatasetParts,
     x \in TransformParts, l \in LookupParts, f \in FlowParts}

\* documents with a stage record and one stage list or none
DocsNoLists ==
  {h \o r : h \in {<<StageListTok>>, <<Tok("StageNames", <<"A", "|", "B", "|", "C">>)>>, <<>>},
            r \in StageRecords}

\* tokens no pattern of the parser matches: free text, an unknown field,
\* and fields whose value is empty where the pattern wants a character
PlainToks ==
  {Filler(10), Tok("Note", <<"x">>), Tok("Identifier", Empty), Tok("JobType", Empty),
   Tok("Value", <<"v">>)}

\* documents without any recognized construct
DocsPlain == {<<>>} \cup {<<a>> : a \in PlainToks} \cup {<<a, b>> : a, b \in PlainToks}

\* a parameter sub-record
ParamRecord(help, code) ==
  <<Tok("BeginSub", Null), Tok("Name", <<"p">>), Tok("Prompt", <<"q">>),
    Tok("Default", Empty)>> \o help \o <<Tok("ParamType", code)>>

\* documents with the header fields and parameters only
DocsHeader ==
  {i \o t \o d \o p :
     i \in {<<>>, <<Tok("Identifier", <<"J">>)>>},
     t \in {<<>>, <<Tok("JobType", <<"1">>)>>, <<Tok("JobType", <<"9">>)>>,
            <<Tok("JobType", <<"c", "o", "n", "s", "t", "r", "u", "c", "t", "o", "r">>)>>},
     d \in {<<>>, <<Tok("FullDescription", <<" ", "a", "\n", "b", "\r", "\n", "\r", "\n", "c">>)>>},
     p \in {<<>>, ParamRecord(<<>>, <<"2">>),
            ParamRecord(<<Tok("HelpTxt", <<"h">>)>>, <<"9", "9">>),
            ParamRecord(<<>>, <<"1", "3">>)}}

(***************************************************************************)
(* The whole call, as a function of the document                           *)
(***************************************************************************)

\* result.flow of a document with both stage lists
FlowOf(d, map) == IF HasLinkNames(d) THEN PrimaryFlow(d, map) ELSE FallbackFlow(d, map, 1)

\* extractDSXJobInfo(d) at clock value t
ExtractJobInfo(d, t) ==
  LET head == [InitialResult(t) EXCEPT !.name = JobName(d),
                                       !.description = JobDescription(d),
                                       !.type = JobType(d),
                                       !.parameters = Parameters(d, 1)]
      blocks == XmlBlocks(d, 1)
      types == StageTypeMap(d)
  IN IF HasStageLists(d)
     THEN [head EXCEPT !.sources = SourcesOf(d, blocks, types),
                       !.targets = BlockTargetsOf(d, blocks, types) \o DatasetTargetsOf(d, 1),
                       !.sql_scripts = SqlScriptsOf(d, blocks),
                       !.lookups = LookupsOf(d, 1),
                       !.transforms = TransformsOf(d, 1),
                       !.flow = FlowOf(d, StageMap(d))]
     ELSE head

(***************************************************************************)
(* The upload page: handleFilesUploaded, extractDSXFilesFromZip and        *)
(* processDSXFiles                                                         *)
(***************************************************************************)

\* the most files of one upload
MaxFiles == 2

\* the most files listed in the explorer when an upload starts
MaxListed == 1

\* toLowerCase on the letters of the archive extension
LowerOf(c) ==
  CASE c = "Z" -> "z" [] c = "I" -> "i" [] c = "P" -> "p" [] OTHER -> c

ToLowerCase(s) == [i \in 1..Len(s) |-> LowerOf(s[i])]

\* file.name.toLowerCase().endsWith('.zip')
IsZipName(name) == EndsWith(ToLowerCase(name), <<".", "z", "i", "p">>)

\* fileName.endsWith('.dsx')
IsDsxName(name) == EndsWith(name, <<".", "d", "s", "x">>)

\* A File: its name, whether reading it succeeds, its text, and for an
\* archive whether it loads and its entries (name, whether the entry
\* decompresses, text)
PlainFile(name, readable, content) ==
  [name |-> name, readable |-> readable, content |-> content, loads |-> FALSE,
   entries |-> <<>>]

ZipFile(name, readable, loads, entries) ==
  [name |-> name, readable |-> readable, content |-> <<>>, loads |-> loads,
   entries |-> entries]

ZipEntry(name, ok, content) == [name |-> name, ok |-> ok, content |-> content]

\* new File([blob], zipEntry.name)
FileOfEntry(e) == PlainFile(e.name, TRUE, e.content)

\* the entries of the archive whose name ends in .dsx
DsxEntries(zip) ==
  KeepAt(zip.entries, {i \in 1..Len(zip.entries) : IsDsxName(zip.entries[i].name)}, 1)

\* what the promise of extractDSXFilesFromZip settles with: it rejects when
\* the file cannot be read, when the archive does not load, and when
\* Promise.all rejects because one .dsx entry does not decompress
ExtractDSXFilesFromZip(zip) ==
  LET es == DsxEntries(zip)
  IN IF zip.readable /\ zip.loads /\ \A i \in 1..Len(es) : es[i].ok
     THEN [zip |-> zip, status |-> "resolved", value |-> [i \in 1..Len(es) |-> FileOfEntry(es[i])]]
     ELSE [zip |-> zip, status |-> "rejected", value |-> <<>>]

\* a toast
Toast(level, text, arg) == [level |-> level, text |-> text, arg |-> arg]

NumText(n) == IF n = 0 THEN <<"0">> ELSE <<DigitOf(n)>>

\* uploadedFiles.filter(file => file.name.toLowerCase().endsWith('.zip'))
ZipsOf(u) == KeepAt(u, {i \in 1..Len(u) : IsZipName(u[i].name)}, 1)

\* uploadedFiles.filter(file => !file.name.toLowerCase().endsWith('.zip'))
NonZipsOf(u) == KeepAt(u, {i \in 1..Len(u) : ~IsZipName(u[i].name)}, 1)

\* the settled value of a promise that has not settled
Pending == [status |-> "pending", value |-> <<>>]

\* the page before any upload
PageIdle ==
  /\ uploaded = <<>>
  /\ upc = "idle"
  /\ zipResults = <<>>
  /\ filesToProcess = <<>>
  /\ results = <<>>
  /\ batch = Pending
  /\ isProcessing = FALSE
  /\ files = <<>>
  /\ processingResults = <<>>
  /\ toasts = <<>>
  /\ saved = <<>>

\* the ProcessingResult of a file that was read (the token estimate left out)
ProcessingResultOf(file, t) ==
  [originalFile |-> file.name, data |-> ExtractJobInfo(file.content, t)]

\* results.find(r => r.data.name === name)?.data
FindData(rs, name) ==
  LET S == {i \in 1..Len(rs) : rs[i].data.name = name}
  IN IF S = {} THEN Null ELSE rs[MinOf(S)].data

\* the explorer items of lines 63-69, built on createFileTree
NewFiles(rs) ==
  [i \in 1..Len(rs) |->
     [name |-> rs[i].data.name,
      description |-> rs[i].data.description,
      parameters |-> Len(rs[i].data.parameters),
      sources |-> Len(rs[i].data.sources),
      targets |-> Len(rs[i].data.targets),
      path |-> <<"/">> \o rs[i].data.name,
      type |-> "file",
      jsonContent |-> FindData(rs, rs[i].data.name)]]

\* lines 34-43: the handler starts on a non-empty upload
StartUpload(u) ==
  /\ upc = "idle"
  /\ Len(u) > 0
  /\ Len(files) <= MaxListed
  /\ uploaded' = u
  /\ isProcessing' = TRUE
  /\ toasts' = <<Toast("info", "Processing files...", Empty)>>
  /\ filesToProcess' = NonZipsOf(u)
  /\ zipResults' = <<>>
  /\ results' = <<>>
  /\ batch' = Pending
  /\ upc' = IF Len(ZipsOf(u)) > 0 THEN "zips" ELSE "process"
  /\ UNCHANGED <<files, processingResults>>
  /\ UNCHANGED <<saved, extractVars>>

\* lines 47-50: the next archive is extracted and its files are appended
ZipExtracted ==
  /\ upc = "zips"
  /\ LET zips == ZipsOf(uploaded)
         r == ExtractDSXFilesFromZip(zips[Len(zipResults) + 1])
     IN /\ r.status = "resolved"
        /\ zipResults' = Append(zipResults, r)
        /\ filesToProcess' = filesToProcess \o r.value
        /\ upc' = IF Len(zipResults) + 1 = Len(zips) THEN "process" ELSE "zips"
  /\ UNCHANGED <<uploaded, results, batch, isProcessing, files, processingResults, toasts>>
  /\ UNCHANGED <<saved, extractVars>>

\* lines 51-54: the extraction of the next archive rejects: a toast, and the loop goes on
ZipFailed ==
  /\ upc = "zips"
  /\ LET zips == ZipsOf(uploaded)
         r == ExtractDSXFilesFromZip(zips[Len(zipResults) + 1])
     IN /\ r.status = "rejected"
        /\ zipResults' = Append(zipResults, r)
        /\ toasts' = Append(toasts, Toast("error", "Failed to extract files from", r.zip.name))
        /\ upc' = IF Len(zipResults) + 1 = Len(zips) THEN "process" ELSE "zips"
  /\ UNCHANGED <<uploaded, filesToProcess, results, batch, isProcessing, files,
                 processingResults>>
  /\ UNCHANGED <<saved, extractVars>>

\* processDSXFiles, lines 745-755: the next file is read and parsed
ProcessFile ==
  /\ upc = "process"
  /\ Len(results) < Len(filesToProcess)
  /\ filesToProcess[Len(results) + 1].readable
  /\ results' = Append(results, ProcessingResultOf(filesToProcess[Len(results) + 1], now))
  /\ UNCHANGED <<uploaded, upc, zipResults, filesToProcess, batch, isProcessing, files,
                 processingResults, toasts>>
  /\ UNCHANGED <<saved, extractVars>>

\* processDSXFiles, lines 756-759: reading the next file fails, the error is
\* thrown again and the promise rejects; the local results are dropped
ProcessFileFails ==
  /\ upc = "process"
  /\ Len(results) < Len(filesToProcess)
  /\ ~filesToProcess[Len(results) + 1].readable
  /\ batch' = [status |-> "rejected", value |-> <<>>]
  /\ results' = <<>>
  /\ upc' = "catch"
  /\ UNCHANGED <<uploaded, zipResults, filesToProcess, isProcessing, files,
                 processingResults, toasts>>
  /\ UNCHANGED <<saved, extractVars>>

\* line 762 and lines 59-72: the promise resolves, the page takes the results
ProcessDone ==
  /\ upc = "process"
  /\ Len(results) = Len(filesToProcess)
  /\ batch' = [status |-> "resolved", value |-> results]
  /\ processingResults' = results
  /\ files' = files \o NewFiles(results)
  /\ toasts' = Append(toasts, Toast("success", "Successfully processed", NumText(Len(results))))
  /\ upc' = "finally"
  /\ UNCHANGED <<uploaded, zipResults, filesToProcess, results, isProcessing>>
  /\ UNCHANGED <<saved, extractVars>>

\* lines 73-75
CatchError ==
  /\ upc = "catch"
  /\ toasts' = Append(toasts, Toast("error", "Error processing files. Please try again.", Empty))
  /\ upc' = "finally"
  /\ UNCHANGED <<uploaded, zipResults, filesToProcess, results, batch, isProcessing, files,
                 processingResults>>
  /\ UNCHANGED <<saved, extractVars>>

\* lines 76-78
Finally ==
  /\ upc = "finally"
  /\ isProcessing' = FALSE
  /\ upc' = "idle"
  /\ UNCHANGED <<uploaded, zipResults, filesToProcess, results, batch, files,
                 processingResults, toasts>>
  /\ UNCHANGED <<saved, extractVars>>

\* saveAsZip, lines 776-784: one entry <name>.json per result; an entry
\* added under a name the archive already holds replaces its content
SaveAsZip(rs) ==
  LET firsts == {i \in 1..Len(rs) : \A j \in 1..(i - 1) : rs[j].data.name # rs[i].data.name}
      last(i) == MaxOf({j \in 1..Len(rs) : rs[j].data.name = rs[i].data.name})
      kept == KeepAt([i \in 1..Len(rs) |-> i], firsts, 1)
  IN [k \in 1..Len(kept) |->
        [name |-> rs[kept[k]].data.name \o <<".", "j", "s", "o", "n">>,
         data |-> rs[last(kept[k])].data]]

\* handleDownloadAll, lines 81-97: refused without processed results,
\* otherwise the results are packed and the archive is saved
DownloadAll ==
  /\ upc = "idle"
  /\ IF Len(processingResults) = 0
     THEN /\ toasts' = <<Toast("error", "No processed files to download", Empty)>>
          /\ UNCHANGED saved
     ELSE /\ toasts' = <<Toast("info", "Preparing download...", Empty),
                         Toast("success", "Files downloaded successfully", Empty)>>
          /\ saved' = SaveAsZip(processingResults)
  /\ UNCHANGED <<uploaded, upc, zipResults, filesToProcess, results, batch, isProcessing,
                 files, processingResults>>
  /\ UNCHANGED extractVars

\* handleClearFiles, lines 105-110, behind the Clear All button that is
\* rendered while files are listed (line 126)
ClearFiles ==
  /\ upc = "idle"
  /\ Len(files) > 0
  /\ files' = <<>>
  /\ processingResults' = <<>>
  /\ toasts' = <<Toast("info", "All files cleared", Empty)>>
  /\ UNCHANGED <<uploaded, upc, zipResults, filesToProcess, results, batch, isProcessing,
                 saved>>
  /\ UNCHANGED extractVars

\* the documents of the uploaded files
DocJ == <<Tok("Identifier", <<"J">>), Tok("JobType", <<"1">>)>>

DocK == <<Tok("Identifier", <<"K">>)>>

\* the files a user may upload: documents that can and cannot be read, and
\* archives: sound, with an entry that does not decompress, not loadable
UploadFiles ==
  {PlainFile(<<"a", ".", "d", "s", "x">>, TRUE, DocJ),
   PlainFile(<<"b", ".", "d", "s", "x">>, FALSE, DocK),
   PlainFile(<<"c", ".", "t", "x", "t">>, TRUE, DocK),
   ZipFile(<<"z", ".", "z", "i", "p">>, TRUE, TRUE,
           <<ZipEntry(<<"e", ".", "d", "s", "x">>, TRUE, DocJ),
             ZipEntry(<<"n", ".", "t", "x", "t">>, TRUE, DocK),
             ZipEntry(<<"u", ".", "D", "S", "X">>, TRUE, DocK),
             ZipEntry(<<"f", ".", "d", "s", "x">>, TRUE, DocK)>>),
   ZipFile(<<"y", ".", "Z", "I", "P">>, TRUE, TRUE,
           <<ZipEntry(<<"e", ".", "d", "s", "x">>, TRUE, DocJ),
             ZipEntry(<<"g", ".", "d", "s", "x">>, FALSE, DocK)>>),
   ZipFile(<<"x", ".", "z", "i", "p">>, TRUE, FALSE, <<>>)}

\* the uploads: one to MaxFiles files
Uploads == UNION {[1..m -> UploadFiles] : m \in 1..MaxFiles}

InitPage ==
  /\ doc = <<>>
  /\ now = 1
  /\ pc = "idle"
  /\ result = InitialResult(1)
  /\ stageMap = NoMap
  /\ stageTypeMap = NoMap
  /\ validation = NoValidation
  /\ returned = <<>>
  /\ PageIdle

NextPage ==
  \/ \E u \in Uploads : StartUpload(u)
  \/ ZipExtracted
  \/ ZipFailed
  \/ ProcessFile
  \/ ProcessFileFails
  \/ ProcessDone
  \/ CatchError
  \/ Finally
  \/ DownloadAll
  \/ ClearFiles

SpecPage == InitPage /\ [][NextPage]_vars

\* the clock values of the model
MaxTime == 2

Times == 1..MaxTime

\* the documents a call may be given
Docs ==
  DocsLinks \cup DocsLinkRecords \cup DocsStages \cup DocsNoLists \cup DocsPlain
  \cup DocsHeader

Init ==
  /\ doc \in Docs
  /\ now \in Times
  /\ doc \in DocsPlain \cup DocsHeader \/ now = 1
  /\ pc = "idle"
  /\ result = InitialResult(now)
  /\ stageMap = NoMap
  /\ stageTypeMap = NoMap
  /\ validation = NoValidation
  /\ returned = <<>>
  /\ PageIdle

Next ==
  \/ Call
  \/ ExtractHeader
  \/ ExtractParameters
  \/ ResolveStages
  \/ SkipStages
  \/ ExtractBlocks
  \/ ExtractLookups
  \/ ExtractDatasetTargets
  \/ ExtractTransforms
  \/ AssemblePrimaryFlow
  \/ AssembleFallbackFlow
  \/ Validate
  \/ Return

Spec == Init /\ [][Next]_vars

(***************************************************************************)
(* Properties                                                              *)
(***************************************************************************)

(***************************************************************************)
(* The sections of a job: documents for the select statements, the         *)
(* columns, the lookups and the transforms, each parsed more than once     *)
(***************************************************************************)

\* the select statements of a source block
SelectTexts ==
  {<<"s", "e", "l", "e", "c", "t", " ", "1", " ", "w", "h", "e", "r", "e", " ", "x">>,
   <<"s", "e", "l", "e", "c", "t", " ", "1", " ", "/", "*", "c", "*", "/", " ", "w", "h", "e", "r", "e", " ", "x">>,
   <<"S", "E", "L", "E", "C", "T", " ", "a", " ", " ", "F", "R", "O", "M", " ", "t", " ", "W", "h", "e", "r", "e", " ", "a", "=", "1", " ", "g", "r", "o", "u", "p", " ", "b", "y", " ", "a">>,
   <<"s", "e", "l", "e", "c", "t", " ", "1">>,
   <<"/", "*", "c", "*", "/">>}

\* a source record, of a stage of the flow or of another stage, with a
\* select statement, with or without a table name
DocsSelect ==
  {StageLists \o <<Tok("Begin", Null), Tok("Name", nm)>>
     \o PropertyBlock(<<Tok("Context", <<"1">>), Tok("SelectStatement", q)>> \o t)
     \o <<Tok("End", Null)>> \o f :
     nm \in {<<"A">>, <<"Z">>}, q \in SelectTexts, t \in TableEls, f \in FlowParts}

\* documents lacking a stage list, with a source record
DocsSkipped ==
  {h \o <<Tok("Begin", Null), Tok("Name", <<"A">>)>>
     \o PropertyBlock(<<Tok("Context", <<"1">>), Tok("TableName", <<"T">>)>>)
     \o <<Tok("End", Null)>> :
     h \in {<<StageListTok>>, <<>>}}

\* the most columns of an output pin
MaxColumns == 2

\* a column sub-record
ColumnRecord(name, sqlType, precision, scale, more) ==
  <<Tok("Name", name), Tok("SqlType", sqlType), Tok("Precision", precision),
    Tok("Scale", scale), Tok("Nullable", <<"1">>)>> \o more

\* the columns of the model: an integer, two system columns, a decimal with
\* a derivation, a code outside the table, a code naming an inherited member
ColumnChoice(i) ==
  {ColumnRecord(<<"c">>, <<"4">>, <<"1", "0">>, <<"0">>, <<>>),
   ColumnRecord(<<"A", "P", "T", "_", "x">>, <<"4">>, <<"1", "0">>, <<"0">>, <<>>),
   ColumnRecord(<<"D", "S", "L", "i", "n", "k", "1">>, <<"1", "2">>, <<"5">>, <<"0">>, <<>>),
   ColumnRecord(<<"d">>, <<"3">>, <<"1", "0">>, <<"2">>, <<Tok("Derivation", <<" ", "a", " ", " ", "+", " ", "b", " ">>)>>),
   ColumnRecord(<<"e">>, <<"7", "7">>, <<"0">>, <<"0">>, <<>>),
   ColumnRecord(<<"f">>, <<"c", "o", "n", "s", "t", "r", "u", "c", "t", "o", "r">>, <<"0">>, <<"0">>, <<>>)}

\* the concatenation of a sequence of sequences
RECURSIVE Flatten(_)
Flatten(seqs) == IF seqs = <<>> THEN <<>> ELSE seqs[1] \o Flatten(Tail(seqs))

\* documents with an output pin that declares columns for the link L1 of
\* the flow or for another link
DocsColumns ==
  {StageLists
     \o <<Tok("Begin", Null), Tok("Identifier", <<"V", "1", "P", "1">>), Tok("Name", ln),
          Tok("Columns", <<"C", "O", "u", "t", "p", "u", "t", "C", "o", "l", "u", "m", "n">>)>>
     \o Flatten(cs) \o <<Tok(e, Null)>>
     \o <<Tok("LinkNames", <<"L", "1">>), Tok("LinkSourcePinIDs", <<"V", "1", "P", "1">>),
          Tok("TargetStageIDs", <<"V", "2">>)>> :
     ln \in {<<"L", "1">>, <<"L", "2">>}, cs \in ListsUpTo(MaxColumns, ColumnChoice),
     e \in {"MetaBag", "End"}}

\* documents with a link record and any of the three list fields
DocsMixedFlow ==
  {StageLists \o sp \o ts \o ln \o r :
     sp \in {<<>>, <<Tok("LinkSourcePinIDs", <<"V", "1", "P", "1">>)>>},
     ts \in {<<>>, <<Tok("TargetStageIDs", <<"V", "2">>)>>},
     ln \in {<<>>, <<Tok("LinkNames", <<"L", "1">>)>>},
     r \in {<<>>, LinkRecord(StageIdAt(2), StageIdAt(3))}}

\* the most key-position markers of a lookup record
MaxKeys == 2

\* a key-position marker and the column name after it: a zero marker, a
\* marker 1, a marker of two characters
KeyChoice(i) ==
  {<<Tok("KeyPosition", <<"0">>), Tok("Name", <<"z">>)>>,
   <<Tok("KeyPosition", <<"1">>), Tok("Name", <<"c">>)>>,
   <<Tok("KeyPosition", <<"1", "0">>), Tok("Name", <<"t">>)>>}

\* lookup records: with or without an input link, a fail policy and keys
DocsLookups ==
  {StageLists
     \o <<Tok("Begin", Null), Tok("StageType", <<"P", "x", "L", "o", "o", "k", "u", "p">>), Tok("Name", <<"K">>)>>
     \o ins \o fail \o Flatten(ks) \o <<Tok("End", Null)>> \o f :
     ins \in {<<>>, <<Tok("Identifier", <<"V", "1", "P", "1">>), Tok("Name", <<"i", "n">>),
                      Tok("Partner", <<"x">>)>>},
     fail \in {<<>>, <<Tok("LookupFail", <<"c", "o", "n", "t", "i", "n", "u", "e">>)>>, <<Tok("LookupFail", <<"f", "a", "i", "l">>)>>},
     ks \in {<<>>} \cup ListsUpTo(MaxKeys, KeyChoice),
     f \in {<<>>}}

\* the texts of a transformation-code block: a rule and a comment, a
\* declaration, a boilerplate line and a rule, no assignment, a generated
\* call and a rule, a lone equals sign
CodeTexts ==
  {<<" ", "a", " ", " ", "=", " ", "b", "\n", "/", "/", "c", "=", "d">>, <<"i", "n", "t", " ", "i", "=", "0">>, <<"x", " ", "=", " ", "N", "u", "l", "l", "S", "e", "t", "\n", "y", " ", "=", "\t", "1">>, <<"a", " ", "b">>,
   <<"w", "r", "i", "t", "e", "r", "e", "c", "o", "r", "d", " ", "0", ";", "\n", " ", "p", "=", "q", " ">>, <<"=">>}

\* transformation-code blocks: after a record header or not, the record
\* named or not, a name before the header or not
DocsTransforms ==
  {StageLists \o pre \o hdr \o nm
     \o <<Tok("Name", <<"T", "r", "x", "G", "e", "n", "C", "o", "d", "e">>), Code(c), Tok("End", Null)>> :
     pre \in {<<>>, <<Tok("Name", <<"P">>)>>},
     hdr \in {<<>>, <<Tok("Begin", Null)>>},
     nm \in {<<>>, <<Tok("Name", <<"B">>)>>},
     c \in CodeTexts}

\* the documents of the sections
DocsSections ==
  DocsSelect \cup DocsSkipped \cup DocsColumns \cup DocsMixedFlow \cup DocsLookups
    \cup DocsTransforms

InitSections ==
  /\ doc \in DocsSections
  /\ now = 1
  /\ pc = "idle"
  /\ result = InitialResult(now)
  /\ stageMap = NoMap
  /\ stageTypeMap = NoMap
  /\ validation = NoValidation
  /\ returned = <<>>
  /\ PageIdle

NextSections ==
  \/ Call
  \/ ExtractHeader
  \/ ExtractParameters
  \/ ResolveStages
  \/ SkipStages
  \/ ExtractBlocks
  \/ ExtractLookups
  \/ ExtractDatasetTargets
  \/ ExtractTransforms
  \/ AssemblePrimaryFlow
  \/ AssembleFallbackFlow
  \/ Validate
  \/ Return
  \/ CallAgain

SpecSections == InitSections /\ [][NextSections]_vars

Min2(a, b) == IF a <= b THEN a ELSE b

\* the names the stage map resolves identifiers to
ResolvedNames == {stageMap[id] : id \in DOMAIN stageMap}

\* an endpoint that is a resolved stage name and no placeholder
IsResolvedName(n) == n \in ResolvedNames /\ n # Unknown /\ n # Blank /\ Trim(n) # Empty

\* C1: every connection of the flow, of the primary strategy or of the
\* fallback scan, has from and to equal to a stage name resolved through the
\* stage map; no endpoint is "Unknown", blank or a raw identifier.
C1_FlowEndpointsResolved ==
  \A i \in 1..Len(result.flow) :
    IsResolvedName(result.flow[i].from) /\ IsResolvedName(result.flow[i].to)

\* the three lists of the primary strategy are all present
PrimaryTaken ==
  /\ HasStageLists(doc) /\ HasLinkNames(doc)
  /\ MatchAny(doc, "LinkSourcePinIDs") # Null /\ MatchAny(doc, "TargetStageIDs") # Null

\* the lists as written in the document, nothing filtered
WrittenLinkNames == Split(MatchAny(doc, "LinkNames"), "|")

WrittenPins == Split(MatchAny(doc, "LinkSourcePinIDs"), "|")

WrittenTargets == Split(MatchAny(doc, "TargetStageIDs"), "|")

\* C2: in the primary strategy a connection carrying the i-th link name as
\* written has from = the resolved prefix before 'P' of the i-th pin and
\* to = the resolved i-th target, never the entries of another position.
C2_FlowByWrittenIndex ==
  (pc = "done" /\ PrimaryTaken) =>
    \A k \in 1..Len(result.flow) :
      \E i \in 1..Len(WrittenLinkNames) :
        /\ WrittenLinkNames[i] = result.flow[k].link
        /\ i <= Len(WrittenPins) /\ i <= Len(WrittenTargets)
        /\ result.flow[k].from = Lookup(stageMap, Split(WrittenPins[i], "P")[1])
        /\ result.flow[k].to = Lookup(stageMap, WrittenTargets[i])

\* the lists of the loop of line 561
LoopLinkNames == LinkNamesOf(MatchAny(doc, "LinkNames"))

\* the length of the shortest of the three lists of the loop
Shortest == Min2(Len(LoopLinkNames), Min2(Len(WrittenPins), Len(WrittenTargets)))

\* C3: with lists of unequal length the flow assembly emits no connection
\* for an index at or past the length of the shortest list, so at most that
\* many connections, and the connections of the indices below it are those
\* of the lists cut to that length.
C3_SkipsPastShortest ==
  (pc = "done" /\ PrimaryTaken) =>
    /\ Len(result.flow) <= Shortest
    /\ Len(result.flow) <= Len(WrittenLinkNames)
    /\ \A k \in 1..Len(result.flow) :
         \E i \in 1..Shortest : LoopLinkNames[i] = result.flow[k].link
    /\ result.flow = PrimaryFrom(SubSeq(LoopLinkNames, 1, Shortest),
                                 SubSeq(WrittenPins, 1, Shortest),
                                 SubSeq(WrittenTargets, 1, Shortest), stageMap, 1)

\* lists of unequal length, a connection emitted and an index skipped
C3_Witness ==
  /\ pc = "done" /\ PrimaryTaken
  /\ Len(LoopLinkNames) > Shortest
  /\ Len(WrittenPins) # Len(WrittenTargets)
  /\ Len(result.flow) > 0

\* a named record holds a context-1 property block with a select statement
HasSelectSource ==
  LET blocks == XmlBlocks(doc, 1)
  IN \E i \in 1..Len(blocks) :
       LET x == doc[blocks[i][2]].x
       IN /\ RecordName(doc, blocks[i][1]) # Null
          /\ ContextOf(x) = 1
          /\ XmlMatch(x, "SelectStatement") # Null
          /\ Truthy(NormalizeSql(XmlMatch(x, "SelectStatement")))

\* C4: a document without StageList or StageNames still has its sources
\* extracted: a named record with a context-1 block holding a select
\* statement yields a source.
C4_SourcesWithoutStageLists ==
  (pc = "done" /\ ~HasStageLists(doc) /\ HasSelectSource) => Len(result.sources) > 0

\* C5: every source carries SQL text, a table name or a non-empty column
\* list; every target carries a table name, a dataset name or a non-empty
\* column list; a block from which none is recovered gives no entry.
C5_StagesCarryContent ==
  /\ \A i \in 1..Len(result.sources) :
       LET s == result.sources[i]
       IN Truthy(s.sql) \/ Truthy(s.table) \/ Len(s.columns) > 0
  /\ \A i \in 1..Len(result.targets) :
       LET t == result.targets[i]
       IN Truthy(t.table) \/ Truthy(t.dataset) \/ Len(t.columns) > 0
  /\ LET blocks == XmlBlocks(doc, 1)
         bare == \A i \in 1..Len(blocks) :
                   LET x == doc[blocks[i][2]].x
                       q == XmlMatch(x, "SelectStatement")
                   IN ~Truthy(XmlMatch(x, "TableName"))
                      /\ (q = Null \/ ~Truthy(NormalizeSql(q)))
     IN (pc = "done" /\ bare) =>
          /\ result.sources = <<>>
          /\ \A i \in 1..Len(result.targets) : Truthy(result.targets[i].dataset)

\* a source and a target were emitted, and so was a block without content met
C5_Witness ==
  /\ pc = "done"
  /\ Len(result.sources) > 0
  /\ Len(result.targets) > 0

\* C6: every source, target, transform and lookup has a non-empty name; a
\* dataset target is emitted only with a stage name found in the window
\* before the dataset field.
C6_StagesNamed ==
  /\ \A i \in 1..Len(result.sources) : Truthy(result.sources[i].name)
  /\ \A i \in 1..Len(result.targets) : Truthy(result.targets[i].name)
  /\ \A i \in 1..Len(result.transforms) : Truthy(result.transforms[i].name)
  /\ \A i \in 1..Len(result.lookups) : Truthy(result.lookups[i].name)

\* the stage names of a JobInfo
StageNamesIn(data) ==
  LET all == NamesOf(data.sources) \o NamesOf(data.targets) \o NamesOf(data.transforms)
             \o NamesOf(data.lookups) \o NamesOf(data.specialized_stages)
  IN {all[i] : i \in 1..Len(all)}

\* C7: the validator reports every stage that is on neither side of any
\* connection, also when the flow is empty: the issues hold its
\* disconnected-stage message and valid is false.
C7_DisconnectedReported ==
  pc \in {"return", "done"} =>
    \A stage \in StageNamesIn(result) :
      (\A i \in 1..Len(result.flow) :
         result.flow[i].from # stage /\ result.flow[i].to # stage)
      => /\ \E j \in 1..Len(validation.issues) :
              validation.issues[j] = DisconnectedMsg(stage)
         /\ ~validation.valid

\* no token of the document is matched by a pattern of the parser
NoConstructs ==
  \A i \in 1..Len(doc) :
    \/ doc[i].k \in {"Filler", "Note", "Value"}
    \/ doc[i].k \in {"Identifier", "JobType"} /\ doc[i].v = Empty

\* C10: for a document with no recognized construct the call returns,
\* without failing, a JobInfo with empty name, description and type, empty
\* collections and a populated extractedAt.
C10_PlainDocumentEmptyResult ==
  NoConstructs =>
    /\ pc # "done" => ENABLED Next
    /\ pc = "done" =>
         /\ Len(returned) = 1
         /\ returned[1].name = Empty /\ returned[1].description = Empty
         /\ returned[1].type = Empty
         /\ returned[1].parameters = <<>> /\ returned[1].sources = <<>>
         /\ returned[1].targets = <<>> /\ returned[1].transforms = <<>>
         /\ returned[1].sql_scripts = <<>> /\ returned[1].lookups = <<>>
         /\ returned[1].filters = <<>> /\ returned[1].specialized_stages = <<>>
         /\ returned[1].flow = <<>>
         /\ Truthy(returned[1].metadata.extractedAt)
         /\ returned[1].metadata.extractedAt = IsoOf(now)

\* a document of near misses (an empty job type) was parsed and returned
C10_Witness ==
  /\ pc = "done" /\ NoConstructs /\ Len(returned) = 1
  /\ \E i \in 1..Len(doc) : doc[i].k = "JobType"

\* the files of the .dsx entries of an archive that decompress
DecompressedOf(zip) ==
  LET es == DsxEntries(zip)
      ok == KeepAt(es, {i \in 1..Len(es) : es[i].ok}, 1)
  IN [i \in 1..Len(ok) |-> FileOfEntry(ok[i])]

\* C8: a failure on one document of a batch does not abort the others and
\* does not lose the earlier results: when processDSXFiles has settled, the
\* caller holds a ProcessingResult for every document that could be read.
C8_BatchIsolatesFailures ==
  upc = "finally" =>
    \A i \in 1..Len(filesToProcess) :
      filesToProcess[i].readable =>
        \E k \in 1..Len(batch.value) :
          batch.value[k] = ProcessingResultOf(filesToProcess[i], now)

\* C9: for an archive that loads, extractDSXFilesFromZip resolves with
\* exactly the files of the entries named *.dsx that decompressed, whether
\* or not another entry failed to decompress.
C9_ZipReturnsDecompressedEntries ==
  \A i \in 1..Len(zipResults) :
    LET r == zipResults[i]
    IN (r.zip.readable /\ r.zip.loads) =>
         /\ r.status = "resolved"
         /\ r.value = DecompressedOf(r.zip)

\* the state machine of one call computes extractDSXJobInfo as the page
\* calls it
ReturnedIsExtractJobInfo ==
  pc = "done" => returned = <<ExtractJobInfo(doc, now)>>

\* the documented label of a job-type code
DocumentedJobType(c) ==
  CASE c = <<"0">> -> <<"S", "e", "r", "v", "e", "r", " ", "J", "o", "b">>
    [] c = <<"1">> -> <<"P", "a", "r", "a", "l", "l", "e", "l", " ", "J", "o", "b">>
    [] c = <<"2">> -> <<"S", "e", "q", "u", "e", "n", "c", "e", " ", "J", "o", "b">>
    [] c = <<"3">> -> <<"S", "e", "r", "v", "e", "r", " ", "R", "o", "u", "t", "i", "n", "e">>
    [] OTHER -> <<"U", "n", "k", "n", "o", "w", "n", " ", "(">> \o c \o <<")">>

\* the documented label of a parameter-type code
DocumentedParamType(c) ==
  CASE c = <<"1">> -> <<"S", "t", "r", "i", "n", "g">>
    [] c = <<"2">> -> <<"I", "n", "t", "e", "g", "e", "r">>
    [] c = <<"3">> -> <<"F", "l", "o", "a", "t">>
    [] c = <<"4">> -> <<"P", "a", "t", "h", "n", "a", "m", "e">>
    [] c = <<"5">> -> <<"L", "i", "s", "t">>
    [] c = <<"6">> -> <<"D", "a", "t", "e">>
    [] c = <<"7">> -> <<"T", "i", "m", "e">>
    [] c = <<"8">> -> <<"T", "i", "m", "e", "s", "t", "a", "m", "p">>
    [] c = <<"1", "3">> -> <<"E", "n", "v", "i", "r", "o", "n", "m", "e", "n", "t", "V", "a", "r">>
    [] OTHER -> <<"U", "n", "k", "n", "o", "w", "n", " ", "(">> \o c \o <<")">>

\* C11: the code tables are total and exact: a code of the table gives its
\* documented label, every other non-empty code c gives "Unknown (c)", for
\* the job type and for every parameter; without a JobType field the type
\* is the empty string.
C11_CodeTablesExact ==
  pc = "done" =>
    /\ LET c == MatchOne(doc, "JobType")
       IN returned[1].type = IF c = Null THEN Empty ELSE DocumentedJobType(c)
    /\ \A j \in 1..Len(doc) :
         ParamAt(doc, j) # 0 =>
           \E i \in 1..Len(returned[1].parameters) :
             /\ returned[1].parameters[i].name = doc[j + 1].v
             /\ returned[1].parameters[i].type = DocumentedParamType(doc[ParamAt(doc, j)].v)

\* a JobInfo with its timestamp replaced
WithTimestamp(info, at) == [info EXCEPT !.metadata.extractedAt = at]

\* C12: two calls on the same document return JobInfos that are equal in
\* every field except metadata.extractedAt.
C12_SameDocumentSameResult ==
  \A i, j \in 1..Len(returned) :
    WithTimestamp(returned[i], Empty) = WithTimestamp(returned[j], Empty)

\* the document was parsed twice, at different clock values, and sources,
\* scripts and connections were found by both calls
C12_Witness ==
  /\ Len(returned) = 2
  /\ returned[1].metadata.extractedAt # returned[2].metadata.extractedAt
  /\ Len(returned[2].sources) > 0 /\ Len(returned[2].sql_scripts) > 0
  /\ Len(returned[2].flow) > 0

\* two characters of white space in a row
HasDoubleWs(s) == \E i \in 1..(Len(s) - 1) : IsWs(s[i]) /\ IsWs(s[i + 1])

\* a block comment: an opening mark with a closing mark after it
HasBlockComment(s) ==
  \E i \in 1..(Len(s) - 1) :
    /\ s[i] = "/" /\ s[i + 1] = "*"
    /\ \E j \in (i + 2)..(Len(s) - 1) : s[j] = "*" /\ s[j + 1] = "/"

\* the context-1 blocks of named records whose select statement is found
SelectBlocks ==
  LET blocks == XmlBlocks(doc, 1)
  IN {i \in 1..Len(blocks) :
        LET x == doc[blocks[i][2]].x
        IN /\ RecordName(doc, blocks[i][1]) # Null
           /\ ContextOf(x) = 1
           /\ XmlMatch(x, "SelectStatement") # Null
           /\ Truthy(NormalizeSql(XmlMatch(x, "SelectStatement")))}

\* C13: the source of a context-1 block whose select statement is found has
\* no table, an sql without block comment and without two white-space
\* characters in a row, and where_clauses holding the predicate of every
\* WHERE of the sql.
C13_SelectSourceNormalized ==
  (pc = "done" /\ HasStageLists(doc)) =>
    \A b \in SelectBlocks :
      \E i \in 1..Len(returned[1].sources) :
        LET src == returned[1].sources[i]
        IN /\ src.name = RecordName(doc, XmlBlocks(doc, 1)[b][1])
           /\ src.table = Null
           /\ ~HasBlockComment(src.sql)
           /\ ~HasDoubleWs(src.sql)
           /\ ExtractWhereClauses(src.sql) # <<>> =>
                src.where_clauses = ExtractWhereClauses(src.sql)

\* C14: the validator is a read-only post-pass: it runs after the extraction,
\* it always returns, it leaves the JobInfo as the extraction built it, and
\* the call returns that JobInfo whether or not issues were reported.
C14_ValidatorReadOnly ==
  /\ pc \notin {"return", "done"} => validation = NoValidation
  /\ pc = "validate" =>
       /\ result = ExtractJobInfo(doc, now)
       /\ ValidateExtractedData(result).valid = (ValidateExtractedData(result).issues = <<>>)
  /\ pc = "return" =>
       /\ result = ExtractJobInfo(doc, now)
       /\ validation = ValidateExtractedData(ExtractJobInfo(doc, now))
  /\ pc = "done" => returned[Len(returned)] = ExtractJobInfo(doc, now)

\* a call returned a JobInfo with sources although the validator reported
\* issues
C14_Witness ==
  /\ pc = "done"
  /\ ~validation.valid /\ Len(validation.issues) > 0
  /\ Len(returned[1].sources) > 0

\* a value that is a string: neither undefined nor an inherited member
IsString(v) == v = Empty \/ v[1] \notin {"<null>", "<inherited>"}

\* the connections of the returned flow that carry a column list
WithColumnList == {i \in 1..Len(returned[1].flow) : "columns" \in DOMAIN returned[1].flow[i]}

\* C15: no column of a column list of the flow has a name with a reserved
\* system prefix, and the type of every column is a non-empty string.
C15_ColumnsClean ==
  pc = "done" =>
    \A i \in WithColumnList :
      LET cols == returned[1].flow[i].columns
      IN \A k \in 1..Len(cols) :
           /\ ~StartsWith(cols[k].name, <<"A", "P", "T", "_">>)
           /\ ~StartsWith(cols[k].name, <<"D", "S", "L", "i", "n", "k">>)
           /\ IsString(cols[k].type) /\ cols[k].type # Empty

\* one of the three parallel-list fields is in the document
AnyListField ==
  \E j \in 1..Len(doc) : doc[j].k \in {"LinkNames", "LinkSourcePinIDs", "TargetStageIDs"}

\* the link records of the document: the from and to identifiers
LinkRecordsOf ==
  {j \in 1..Len(doc) : doc[j].k = "FromStageID"}

\* a connection of the fallback: its link name is built from its endpoints
IsSynthesized(c) == c.link = c.from \o <<"_", "t", "o", "_">> \o c.to

\* C16: the fallback scan is used only when the three list fields are all
\* absent, then giving one connection per link record, named from_to_to;
\* with any list field in the document the flow holds no connection of the
\* fallback.
C16_FallbackOnlyWithoutLists ==
  (pc = "done" /\ HasStageLists(doc)) =>
    IF AnyListField
    THEN \A k \in 1..Len(returned[1].flow) : ~IsSynthesized(returned[1].flow[k])
    ELSE /\ Len(returned[1].flow) = Cardinality(LinkRecordsOf)
         /\ \A k \in 1..Len(returned[1].flow) : IsSynthesized(returned[1].flow[k])

\* the positions of the lookup section of the document: from the lookup
\* stage type to the first record end after it
LookupSection ==
  LET S == {j \in 1..Len(doc) : doc[j].k = "StageType" /\ doc[j].v = <<"P", "x", "L", "o", "o", "k", "u", "p">>}
      a == MinOf(S)
      E == {j \in a..Len(doc) : doc[j].k = "End"}
  IN IF S = {} \/ E = {} THEN {} ELSE a..MinOf(E)

\* a key-position marker other than zero: one character that is not 0
IsKeyMarker(t) == t.k = "KeyPosition" /\ t.v # Null /\ Len(t.v) = 1 /\ t.v # <<"0">>

\* position n holds the first name after the marker at position j
FirstNameAfter(j, n) ==
  /\ n > j /\ doc[n].k = "Name" /\ Truthy(doc[n].v)
  /\ \A m \in (j + 1)..(n - 1) : ~(doc[m].k = "Name" /\ Truthy(doc[m].v))

\* C17: every lookup has an input or a key column; it has inputs only when
\* its section declares a LookupFail policy, and then fail_mode is that
\* policy verbatim; every key column is the name that follows a
\* key-position marker other than zero.
C17_LookupsGuarded ==
  pc = "done" =>
    \A i \in 1..Len(returned[1].lookups) :
      LET l == returned[1].lookups[i]
      IN /\ Len(l.inputs) > 0 \/ Len(l.key_columns) > 0
         /\ Len(l.inputs) > 0 =>
              \E j \in LookupSection :
                /\ doc[j].k = "LookupFail" /\ Truthy(doc[j].v)
                /\ l.fail_mode = doc[j].v
         /\ \A k \in 1..Len(l.key_columns) :
              \E j \in LookupSection, n \in LookupSection :
                /\ IsKeyMarker(doc[j]) /\ FirstNameAfter(j, n)
                /\ l.key_columns[k] = doc[n].v

\* a lookup with an input, a fail policy and a key column was returned for a
\* section that also holds a zero marker
C17_Witness ==
  /\ pc = "done" /\ Len(returned[1].lookups) = 1
  /\ Len(returned[1].lookups[1].inputs) > 0
  /\ returned[1].lookups[1].fail_mode = <<"c", "o", "n", "t", "i", "n", "u", "e">>
  /\ returned[1].lookups[1].key_columns = <<<<"c">>>>
  /\ \E j \in LookupSection : doc[j].k = "KeyPosition" /\ doc[j].v = <<"0">>

\* the positions of the code blocks of the document: the first delimited
\* value after a TrxGenCode name
CodeBlocks ==
  {h \in 1..Len(doc) :
     /\ doc[h].k = "HValue"
     /\ \E n \in 1..(h - 1) :
          /\ doc[n].k = "Name" /\ doc[n].v = <<"T", "r", "x", "G", "e", "n", "C", "o", "d", "e">>
          /\ \A m \in (n + 1)..(h - 1) : doc[m].k # "HValue"}

\* the lines of the code block at position h
LinesOfBlock(h) == LET ls == Split(Trim(doc[h].v), "\n") IN {ls[i] : i \in 1..Len(ls)}

\* a line that holds an assignment and is not boilerplate
Survives(line) ==
  /\ \E i \in 1..Len(line) : line[i] = "="
  /\ ~StartsWith(Trim(line), <<"/", "/">>)
  /\ ~StartsWith(Trim(line), <<"i", "n", "t">>)
  /\ \A w \in {<<"R", "o", "w", "R", "e", "j", "e", "c", "t", "e", "d">>, <<"N", "u", "l", "l", "S", "e", "t">>, <<"i", "n", "p", "u", "t", "n", "a", "m", "e">>, <<"o", "u", "t", "p", "u", "t", "n", "a", "m", "e">>,
               <<"i", "n", "i", "t", "i", "a", "l", "i", "z", "e">>, <<"m", "a", "i", "n", "l", "o", "o", "p">>, <<"f", "i", "n", "i", "s", "h">>, <<"w", "r", "i", "t", "e", "r", "e", "c", "o", "r", "d">>} :
       ~Includes(line, w)

\* the characters of a text that are not white space
NonWs(s) == KeepAt(s, {i \in 1..Len(s) : ~IsWs(s[i])}, 1)

\* rule is line with its white space collapsed: no white space at either
\* end, single blanks inside, the other characters in order
IsCollapsed(rule, line) ==
  /\ NonWs(rule) = NonWs(line)
  /\ rule # <<>> /\ ~IsWs(rule[1]) /\ ~IsWs(rule[Len(rule)])
  /\ \A i \in 1..Len(rule) : IsWs(rule[i]) => rule[i] = " " /\ ~IsWs(rule[i + 1])
  /\ \A i \in 1..(Len(Trim(line)) - 1) :
       (~IsWs(Trim(line)[i]) /\ ~IsWs(Trim(line)[i + 1]))
         => \E j \in 1..(Len(rule) - 1) :
              /\ rule[j] = Trim(line)[i] /\ rule[j + 1] = Trim(line)[i + 1]
              /\ Len(NonWs(SubSeq(rule, 1, j))) = Len(NonWs(SubSeq(Trim(line), 1, i)))

\* the name the record before position h gives: the first name after the
\* last record header before h (after the start of the document when no
\* header precedes), "unknown" without one
NameBefore(h, name) ==
  LET n == MaxOf({j \in 1..(h - 1) : doc[j].k = "Name" /\ doc[j].v = <<"T", "r", "x", "G", "e", "n", "C", "o", "d", "e">>})
      B == {j \in 1..(n - 1) : doc[j].k = "Begin"}
      b == IF B = {} THEN 0 ELSE MaxOf(B)
      N == {j \in (b + 1)..(n - 1) : doc[j].k = "Name" /\ Truthy(doc[j].v)}
  IN IF N = {} THEN name = <<"u", "n", "k", "n", "o", "w", "n">>
     ELSE \E j \in N : name = doc[j].v /\ \A m \in N : j <= m

\* C18: every transform has a rule; each rule is a line of a code block that
\* holds '=' and is not boilerplate, white space collapsed; the name is the
\* name of the record before the block or "unknown"; a block without a
\* surviving line gives no transform.
C18_TransformsHaveRules ==
  pc = "done" =>
    /\ \A i \in 1..Len(returned[1].transforms) :
         LET t == returned[1].transforms[i]
         IN /\ Len(t.rules) > 0
            /\ \E h \in CodeBlocks :
                 /\ \A r \in 1..Len(t.rules) :
                      \E line \in LinesOfBlock(h) :
                        Survives(line) /\ IsCollapsed(t.rules[r], line)
                 /\ NameBefore(h, t.name)
    /\ Len(returned[1].transforms)
         = Cardinality({h \in CodeBlocks : \E line \in LinesOfBlock(h) : Survives(line)})

\* a transform named by its record was returned with the one rule that
\* survives next to a boilerplate line
C18_Witness ==
  /\ pc = "done"
  /\ returned[1].transforms = <<[name |-> <<"B">>, rules |-> <<<<"y", " ", "=", " ", "1">>>>]>>
  /\ \E h \in CodeBlocks : \E line \in LinesOfBlock(h) : Includes(line, <<"N", "u", "l", "l", "S", "e", "t">>)

\* a transform without a resolvable record name was returned as "unknown"
C18_WitnessUnknown ==
  /\ pc = "done" /\ Len(returned[1].transforms) = 1
  /\ returned[1].transforms[1].name = <<"u", "n", "k", "n", "o", "w", "n">>

\* the names listed in the explorer
ListedNames == {files[i].name : i \in 1..Len(files)}

\* the names of the results Download-All packages
ProcessedNames == {processingResults[k].data.name : k \in 1..Len(processingResults)}

\* C19: when no upload is running, the processed results correspond exactly
\* to the files listed in the explorer, and Download-All is not refused
\* while files are listed.
C19_DownloadMatchesExplorer ==
  upc = "idle" =>
    /\ Len(files) = Len(processingResults)
    /\ ListedNames = ProcessedNames
    /\ toasts = <<Toast("error", "No processed files to download", Empty)>> => files = <<>>

\* a batch that failed left both lists as they were and reset isProcessing
C19_FailedBatchKeepsLists ==
  [][(upc \in {"catch", "finally"} /\ batch.status = "rejected") =>
       (files' = files /\ processingResults' = processingResults
        /\ (upc' = "idle" => ~isProcessing'))]_vars

====
